---- MODULE Spec2Model ----
(***************************************************************************)
(* Verification model of the technical-indicator math (SMA, EMA cascades   *)
(* DEMA / TEMA, PPO, Stochastic), of the indicator recalculation handler   *)
(* and of the grid-axis cell layout of the charting library.               *)
(*                                                                         *)
(* Numbers.  JavaScript numbers are modelled as exact rationals <<n, d>>   *)
(* in lowest terms with d > 0, extended with the IEEE special values the   *)
(* code can produce: NaN = <<0, 0>>, +Infinity = <<1, 0>>,                 *)
(* -Infinity = <<-1, 0>>.  The JavaScript values undefined and null are    *)
(* <<0, -1>> and <<0, -2>>; in arithmetic undefined converts to NaN and    *)
(* null to 0, as ToNumber does.  Binary rounding error of IEEE doubles is  *)
(* not represented.                                                        *)
(***************************************************************************)
EXTENDS Integers, Sequences, FiniteSets, TLC

VARIABLES
    series,      \* chart.series: the base series, each [xData, yData, EMApercent]
    out,         \* the last getValues call: [kind, linked, params, res, ema],
                 \* ema counting the EMA.getValues computations it ran
    errors,      \* number of H.error() reports so far
    ind,         \* the indicator series bound to chart.series[0]
    grid         \* the grid axes: one axis with the cells of its ticks, or
                 \* the axis collection of the chart

indVars == <<series, out, errors>>

vars == <<series, out, errors, ind, grid>>

----------------------------------------------------------------------------
(* Bounds of the model *)

MaxPeriod == 3
MaxLenSMA == 4
MaxLenCascade == 8
MaxLenPPO == 4
MaxPeriodsLen == 3
MaxLenStoch == 3
MaxLenRecalc == 4
MaxTicks == 3
MaxAxes == 3
MaxColumns == 3
MaxVal == 2
XBase == 10
MaxErrors == 2

----------------------------------------------------------------------------
(* JavaScript numbers *)

NaN == <<0, 0>>
PosInf == <<1, 0>>
NegInf == <<0 - 1, 0>>
Undefined == <<0, 0 - 1>>
Null == <<0, 0 - 2>>

Abs(i) == IF i < 0 THEN 0 - i ELSE i

\* The arithmetic is defined on values: an operator applies the function of
\* its name to its arguments, which are evaluated once.
JSValue == Int \X Int

jsGCD[a \in Int, b \in Int] == IF b = 0 THEN a ELSE jsGCD[b, a % b]

GCD(a, b) == jsGCD[a, b]

\* n / d in lowest terms, d /= 0
jsNorm[n \in Int, d \in Int] ==
    LET s == IF d < 0 THEN 0 - 1 ELSE 1
        g == GCD(Abs(n), Abs(d))
    IN  <<(s * n) \div g, (s * d) \div g>>

Norm(n, d) == jsNorm[n, d]

Num(i) == <<i, 1>>

IsFinite(a) == a[2] > 0
IsNaN(a) == a = NaN
IsInf(a) == a = PosInf \/ a = NegInf

\* ToNumber: undefined -> NaN, null -> +0
ToNumber(a) ==
    IF a = Undefined THEN NaN ELSE IF a = Null THEN Num(0) ELSE a

Sign(a) == IF a[1] > 0 THEN 1 ELSE IF a[1] < 0 THEN 0 - 1 ELSE 0

jsNeg[a0 \in JSValue] ==
    LET a == ToNumber(a0) IN <<0 - a[1], a[2]>>

Neg(a0) == jsNeg[a0]

jsAdd[a0 \in JSValue, b0 \in JSValue] ==
    LET a == ToNumber(a0)
        b == ToNumber(b0)
    IN  IF IsNaN(a) \/ IsNaN(b) THEN NaN
        ELSE IF IsInf(a) /\ IsInf(b) THEN (IF a = b THEN a ELSE NaN)
        ELSE IF IsInf(a) THEN a
        ELSE IF IsInf(b) THEN b
        ELSE LET g == GCD(a[2], b[2])
             IN  Norm(a[1] * (b[2] \div g) + b[1] * (a[2] \div g),
                      (a[2] \div g) * b[2])

Add(a0, b0) == jsAdd[a0, b0]

Sub(a, b) == Add(a, Neg(b))

jsMul[a0 \in JSValue, b0 \in JSValue] ==
    LET a == ToNumber(a0)
        b == ToNumber(b0)
    IN  IF IsNaN(a) \/ IsNaN(b) THEN NaN
        ELSE IF IsInf(a) \/ IsInf(b)
             THEN (IF Sign(a) * Sign(b) = 0 THEN NaN
                   ELSE IF Sign(a) * Sign(b) > 0 THEN PosInf ELSE NegInf)
        ELSE LET g1 == GCD(Abs(a[1]), b[2])
                 g2 == GCD(Abs(b[1]), a[2])
             IN  Norm((a[1] \div g1) * (b[1] \div g2),
                      (a[2] \div g2) * (b[2] \div g1))

Mul(a0, b0) == jsMul[a0, b0]

\* IEEE division: x/0 is +-Infinity, 0/0 and Inf/Inf are NaN
jsDiv[a0 \in JSValue, b0 \in JSValue] ==
    LET a == ToNumber(a0)
        b == ToNumber(b0)
    IN  IF IsNaN(a) \/ IsNaN(b) THEN NaN
        ELSE IF IsInf(b) THEN (IF IsInf(a) THEN NaN ELSE Num(0))
        ELSE IF b[1] = 0
             THEN (IF Sign(a) = 0 THEN NaN
                   ELSE IF Sign(a) > 0 THEN PosInf ELSE NegInf)
        ELSE IF IsInf(a) THEN (IF Sign(a) * Sign(b) > 0 THEN PosInf ELSE NegInf)
        ELSE Mul(a, Norm(b[2], b[1]))

Div(a0, b0) == jsDiv[a0, b0]

\* a < b and a <= b on numbers; any comparison with NaN is false
jsLt[a0 \in JSValue, b0 \in JSValue] ==
    LET a == ToNumber(a0)
        b == ToNumber(b0)
    IN  IF IsNaN(a) \/ IsNaN(b) THEN FALSE
        ELSE IF IsInf(a) \/ IsInf(b)
             THEN (a = NegInf /\ b # NegInf) \/ (b = PosInf /\ a # PosInf)
        ELSE LET g == GCD(a[2], b[2])
             IN  a[1] * (b[2] \div g) < b[1] * (a[2] \div g)

Lt(a0, b0) == jsLt[a0, b0]

\* a === b on numbers: NaN is not equal to itself
jsStrictEq[a \in JSValue, b \in JSValue] == a = b /\ ~IsNaN(a)

StrictEq(a, b) == jsStrictEq[a, b]

jsLe[a \in JSValue, b \in JSValue] == Lt(a, b) \/ StrictEq(ToNumber(a), ToNumber(b))

Le(a, b) == jsLe[a, b]

\* seq[i] with JavaScript's 0-based indexing: undefined outside the array
At(seq, i) == IF i >= 0 /\ i < Len(seq) THEN seq[i + 1] ELSE Undefined

\* H.correctFloat rounds to 14 significant digits to strip binary
\* floating-point noise.  The model's rationals are exact and carry no such
\* noise, so the corrected value is the value itself.
correctFloat(a) == ToNumber(a)

----------------------------------------------------------------------------
(* Series data.  A row of yData is a scalar or an array of numbers. *)

Scalar(a) == [isArray |-> FALSE, v |-> <<a>>]
ArrayRow(s) == [isArray |-> TRUE, v |-> s]

\* yVal[i]: a missing row reads as the scalar undefined
RowAt(yVal, i) ==
    IF i >= 0 /\ i < Len(yVal) THEN yVal[i + 1] ELSE Scalar(Undefined)

isArray(row) == row.isArray

\* index < 0 ? yVal[i] : yVal[i][index], as a number
YAt(yVal, i, index) ==
    LET row == RowAt(yVal, i)
    IN  IF index < 0
        THEN (IF row.isArray
              THEN (IF Len(row.v) = 1 THEN row.v[1] ELSE NaN)
              ELSE row.v[1])
        ELSE (IF row.isArray THEN At(row.v, index) ELSE Undefined)

NoIndex == [has |-> FALSE, i |-> 0]
WithIndex(i) == [has |-> TRUE, i |-> i]

\* isArray(yVal[0]) ? (params.index ? params.index : 0) : -1
SwitchIndex(yVal, pindex) ==
    IF isArray(RowAt(yVal, 0))
    THEN (IF pindex.has /\ pindex.i # 0 THEN pindex.i ELSE 0)
    ELSE 0 - 1

Failure == [failed |-> TRUE, values |-> <<>>, xData |-> <<>>, yData |-> <<>>]
Values(pts) ==
    [failed |-> FALSE, values |-> pts,
     xData |-> [k \in 1..Len(pts) |-> pts[k][1]],
     yData |-> [k \in 1..Len(pts) |-> pts[k][2]]]

----------------------------------------------------------------------------
(* SMA.getValues *)

RECURSIVE SMAAccumulate(_, _, _, _, _)
\* while (range < period - 1) { sum += y[range]; range++; }
SMAAccumulate(yVal, index, period, range, sum) ==
    IF range < period - 1
    THEN SMAAccumulate(yVal, index, period, range + 1,
                       Add(sum, YAt(yVal, range, index)))
    ELSE <<range, sum>>

\* mutant: subtracts the value one position too early
SMALeavingIndexEarly(i, range) == i - range - 1

\* the index of the value leaving the window: yVal[i - range]
SMALeavingIndex(i, range) == i - range

RECURSIVE SMALoop(_, _, _, _, _, _, _, _)
\* for (i = range; i < yValLen; i++) { ... }
SMALoop(xVal, yVal, index, period, range, i, sum, SMA) ==
    IF i < Len(yVal)
    THEN LET sum1 == Add(sum, YAt(yVal, i, index))
             SMAPoint == <<At(xVal, i), Div(sum1, Num(period))>>
             sum2 == Sub(sum1, YAt(yVal, SMALeavingIndex(i, range), index))
         IN  SMALoop(xVal, yVal, index, period, range, i + 1, sum2,
                     Append(SMA, SMAPoint))
    ELSE SMA

SMAgetValues(s, params) ==
    LET period == params.period
        xVal == s.xData
        yVal == s.yData
    IN  IF Len(xVal) < period THEN Failure
        ELSE LET index == SwitchIndex(yVal, params.index)
                 acc == SMAAccumulate(yVal, index, period, 0, Num(0))
             IN  Values(SMALoop(xVal, yVal, index, period, acc[1], acc[1],
                                acc[2], <<>>))

----------------------------------------------------------------------------
(* EMA: the parent indicator of DEMA, TEMA and PPO *)

RECURSIVE accumulatePeriodPoints(_, _, _)
\* sum of the first period values of the selected component
accumulatePeriodPoints(period, index, yVal) ==
    IF period <= 0 THEN Num(0)
    ELSE Add(accumulatePeriodPoints(period - 1, index, yVal),
             YAt(yVal, period - 1, index))

\* One step of the recurrence: the seed SMA while there is no previous EMA,
\* else value * factor + previous * (1 - factor); the point is [x, y]
calculateEma(xVal, yVal, i, EMApercent, calEMA, index, SMA) ==
    LET x == At(xVal, i - 1)
        yValue == YAt(yVal, i - 1, index)
        y == IF calEMA = Undefined THEN SMA
             ELSE correctFloat(Add(Mul(yValue, EMApercent),
                                   Mul(calEMA, Sub(Num(1), EMApercent))))
    IN  <<x, y>>

\* 2 / (period + 1)
SmoothingFactor(period) == Div(Num(2), Num(period + 1))

RECURSIVE EMALoop(_, _, _, _, _, _, _, _)
EMALoop(xVal, yVal, index, EMApercent, SMA, i, calEMA, EMA) ==
    IF i < Len(yVal) + 1
    THEN LET EMAPoint == calculateEma(xVal, yVal, i, EMApercent, calEMA,
                                      index, SMA)
         IN  EMALoop(xVal, yVal, index, EMApercent, SMA, i + 1, EMAPoint[2],
                     Append(EMA, EMAPoint))
    ELSE EMA

EMAgetValues(s, params) ==
    LET period == params.period
        yVal == s.yData
    IN  IF Len(yVal) < period THEN Failure
        ELSE LET index == SwitchIndex(yVal, params.index)
                 SMA == Div(accumulatePeriodPoints(period, index, yVal),
                            Num(period))
             IN  Values(EMALoop(s.xData, yVal, index,
                                SmoothingFactor(period), SMA, period,
                                Undefined, <<>>))

----------------------------------------------------------------------------
(* DEMA *)

\* getEMA reads the smoothing factor from the first series of the chart;
\* an omitted index is -1, an omitted i is 1, an omitted xVal is []
DEMAgetEMA(chart, yVal, prevEMA, SMA, index, i) ==
    calculateEma(<<>>, yVal, i, chart[1].EMApercent, prevEMA, index, SMA)

DEMAPointOf(xVal, i, EMA, EMAlevel2) ==
    <<At(xVal, i - 2), correctFloat(Sub(Mul(Num(2), EMA), EMAlevel2))>>

\* mutant: the loop stops with the last input and drops the run-off pass
DEMALoopRunsShort(i, yValLen) == i < yValLen + 1

\* i < yValLen + 2
DEMALoopRuns(i, yValLen) == i < yValLen + 2

\* the body of the loop for one i
DEMAStep(chart, xVal, yVal, index, period, st) ==
    LET i == st.i
        computes == i < Len(yVal) + 1
        EMA1 == IF computes
                THEN DEMAgetEMA(chart, yVal, st.prevEMA, st.SMA, index, i)[2]
                ELSE st.EMA
        EMAvalues1 == IF computes THEN Append(st.EMAvalues, EMA1)
                      ELSE st.EMAvalues
    IN  IF i < 2 * period
        THEN [st EXCEPT !.i = i + 1, !.EMA = EMA1, !.prevEMA = EMA1,
                        !.EMAvalues = EMAvalues1,
                        !.accumulatePeriodPoints = Add(@, EMA1)]
        ELSE LET SMA1 == IF i = 2 * period
                         THEN Div(st.accumulatePeriodPoints, Num(period))
                         ELSE st.SMA
                 EMA2 == At(EMAvalues1, i - period - 1)
                 EMAlevel2 == DEMAgetEMA(chart, <<Scalar(EMA2)>>,
                                         st.prevEMAlevel2, SMA1, 0 - 1, 1)[2]
             IN  [st EXCEPT !.i = i + 1, !.EMA = EMA2, !.prevEMA = EMA1,
                            !.EMAvalues = EMAvalues1, !.SMA = SMA1,
                            !.DEMA = Append(@, DEMAPointOf(xVal, i, EMA2,
                                                           EMAlevel2)),
                            !.prevEMAlevel2 = EMAlevel2]

RECURSIVE DEMALoop(_, _, _, _, _, _)
DEMALoop(chart, xVal, yVal, index, period, st) ==
    IF DEMALoopRuns(st.i, Len(yVal))
    THEN DEMALoop(chart, xVal, yVal, index, period,
                  DEMAStep(chart, xVal, yVal, index, period, st))
    ELSE st

\* series.EMApercent = 2 / (period + 1), on the linked series
SetEMApercent(chart, linked, period) ==
    [chart EXCEPT ![linked + 1].EMApercent = SmoothingFactor(period)]

\* chart is chart.series after the assignment to series.EMApercent
DEMAgetValues(chart, linked, params) ==
    LET period == params.period
        xVal == chart[linked + 1].xData
        yVal == chart[linked + 1].yData
    IN  IF Len(yVal) < 2 * period - 1 THEN Failure
        ELSE LET index == SwitchIndex(yVal, params.index)
                 SMA == Div(accumulatePeriodPoints(period, index, yVal),
                            Num(period))
                 st0 == [i |-> period, EMA |-> Num(0), prevEMA |-> Undefined,
                         prevEMAlevel2 |-> Undefined, EMAvalues |-> <<>>,
                         accumulatePeriodPoints |-> Num(0), SMA |-> SMA,
                         DEMA |-> <<>>]
             IN  Values(DEMALoop(chart, xVal, yVal, index, period, st0).DEMA)

----------------------------------------------------------------------------
(* TEMA *)

TEMAgetEMA(chart, yVal, prevEMA, SMA, index, i) ==
    calculateEma(<<>>, yVal, i, chart[1].EMApercent, prevEMA, index, SMA)

getTemaPoint(xVal, tripledPeriod, EMAlevels, i) ==
    <<At(xVal, i - 3),
      correctFloat(Add(Sub(Mul(Num(3), EMAlevels.level1),
                           Mul(Num(3), EMAlevels.level2)),
                       EMAlevels.level3))>>

\* mutant: level1 is read one entry later than level2 and level3
TEMALevel1IndexLate(i, period) == i - period - 1

\* the index of EMAvalues read for level1 of the TEMA point
TEMALevel1Index(i, period) == i - period - 2

\* the index of EMAlevel2values read for level2 of the TEMA point
TEMALevel2Index(i, period) == i - 2 * period - 1

\* the body of the loop for one i
TEMAStep(chart, xVal, yVal, index, period, st) ==
    LET i == st.i
        yValLen == Len(yVal)
        computes == i < yValLen + 1
        l1a == IF computes
               THEN TEMAgetEMA(chart, yVal, st.prevEMA, st.SMA, index, i)[2]
               ELSE st.level1
        EMAvalues1 == IF computes THEN Append(st.EMAvalues, l1a)
                      ELSE st.EMAvalues
        st1 == [st EXCEPT !.i = i + 1, !.level1 = l1a, !.prevEMA = l1a,
                          !.EMAvalues = EMAvalues1]
    IN  IF i < 2 * period
        THEN [st1 EXCEPT !.accumulatePeriodPoints = Add(@, l1a)]
        ELSE LET first2 == i = 2 * period
                 SMA1 == IF first2
                         THEN Div(st.accumulatePeriodPoints, Num(period))
                         ELSE st.SMA
                 acc1 == IF first2 THEN Num(0) ELSE st.accumulatePeriodPoints
                 l1b == At(EMAvalues1, i - period - 1)
                 l2b == TEMAgetEMA(chart, <<Scalar(l1b)>>, st.prevEMAlevel2,
                                   SMA1, 0 - 1, 1)[2]
                 EMAlevel2values1 == Append(st.EMAlevel2values, l2b)
                 st2 == [st1 EXCEPT !.SMA = SMA1, !.level1 = l1b,
                                    !.level2 = l2b,
                                    !.EMAlevel2values = EMAlevel2values1,
                                    !.prevEMAlevel2 = l2b,
                                    !.accumulatePeriodPoints = acc1]
             IN  IF i < 3 * period
                 THEN [st2 EXCEPT !.accumulatePeriodPoints = Add(acc1, l2b)]
                 ELSE LET SMA2 == IF i = 3 * period
                                  THEN Div(acc1, Num(period))
                                  ELSE SMA1
                          last == i = yValLen + 1
                          \* the last ema and emaEMA points
                          l2c == TEMAgetEMA(chart,
                                     <<Scalar(At(EMAvalues1, i - period - 1))>>,
                                     l2b, SMA2, 0 - 1, 1)[2]
                          EMAlevel2values2 ==
                              IF last THEN Append(EMAlevel2values1, l2c)
                              ELSE EMAlevel2values1
                          l1d == At(EMAvalues1, TEMALevel1Index(i, period))
                          l2d == At(EMAlevel2values2,
                                    TEMALevel2Index(i, period))
                          l3d == TEMAgetEMA(chart, <<Scalar(l2d)>>,
                                            st.prevLevel3, SMA2, 0 - 1, 1)[2]
                          EMAlevels == [level1 |-> l1d, level2 |-> l2d,
                                        level3 |-> l3d]
                          TEMAPoint == getTemaPoint(xVal, 3 * period,
                                                    EMAlevels, i)
                      IN  [st2 EXCEPT !.SMA = SMA2, !.level1 = l1d,
                                      !.level2 = l2d, !.level3 = l3d,
                                      !.EMAlevel2values = EMAlevel2values2,
                                      !.TEMA = Append(@, TEMAPoint),
                                      !.prevLevel3 = l3d]

\* i < yValLen + 3
TEMALoopRuns(i, yValLen) == i < yValLen + 3

RECURSIVE TEMALoop(_, _, _, _, _, _)
TEMALoop(chart, xVal, yVal, index, period, st) ==
    IF TEMALoopRuns(st.i, Len(yVal))
    THEN TEMALoop(chart, xVal, yVal, index, period,
                  TEMAStep(chart, xVal, yVal, index, period, st))
    ELSE st

\* the final state of the loop: level arrays and output points
TEMARun(chart, linked, params) ==
    LET period == params.period
        xVal == chart[linked + 1].xData
        yVal == chart[linked + 1].yData
        index == SwitchIndex(yVal, params.index)
        SMA == Div(accumulatePeriodPoints(period, index, yVal), Num(period))
        st0 == [i |-> period, level1 |-> Undefined, level2 |-> Undefined,
                level3 |-> Undefined, prevLevel3 |-> Undefined,
                prevEMA |-> Undefined, prevEMAlevel2 |-> Undefined,
                EMAvalues |-> <<>>, EMAlevel2values |-> <<>>,
                accumulatePeriodPoints |-> Num(0), SMA |-> SMA,
                TEMA |-> <<>>]
    IN  TEMALoop(chart, xVal, yVal, index, period, st0)

\* chart is chart.series after the assignment to series.EMApercent
TEMAgetValues(chart, linked, params) ==
    IF Len(chart[linked + 1].yData) < 3 * params.period - 2 THEN Failure
    ELSE Values(TEMARun(chart, linked, params).TEMA)

----------------------------------------------------------------------------
(* PPO *)

Params(p, idx) == [period |-> p, index |-> idx, periods |-> <<>>]

ParamsOf(periods, idx) == [period |-> 0, index |-> idx, periods |-> periods]

\* mutant: equal periods pass the check
PPOPeriodsIncorrectStrict(periods) ==
    Len(periods) # 2 \/ periods[2] < periods[1]

\* periods.length !== 2 || periods[1] <= periods[0]
PPOPeriodsIncorrect(periods) ==
    Len(periods) # 2 \/ periods[2] <= periods[1]

RECURSIVE PPOLoop(_, _, _, _, _)
PPOLoop(SPE, LPE, periodsOffset, i, PPO) ==
    IF i < Len(LPE.yData)
    THEN LET oscillator ==
                 correctFloat(Mul(Div(Sub(At(SPE.yData, i + periodsOffset),
                                          At(LPE.yData, i)),
                                      At(LPE.yData, i)),
                                  Num(100)))
         IN  PPOLoop(SPE, LPE, periodsOffset, i + 1,
                     Append(PPO, <<At(LPE.xData, i), oscillator>>))
    ELSE PPO

\* [result, number of error reports, number of EMA computations]
PPOgetValues(s, params) ==
    LET periods == params.periods
    IN  IF PPOPeriodsIncorrect(periods) THEN <<Failure, 1, 0>>
        ELSE LET SPE == EMAgetValues(s, Params(periods[1], params.index))
                 LPE == EMAgetValues(s, Params(periods[2], params.index))
             IN  IF SPE.failed \/ LPE.failed THEN <<Failure, 0, 2>>
                 ELSE <<Values(PPOLoop(SPE, LPE, periods[2] - periods[1], 0,
                                       <<>>)), 0, 2>>

----------------------------------------------------------------------------
(* Stochastic *)

\* Math.min / Math.max: NaN when an argument is NaN
jsMin[a0 \in JSValue, b0 \in JSValue] ==
    LET a == ToNumber(a0)
        b == ToNumber(b0)
    IN  IF IsNaN(a) \/ IsNaN(b) THEN NaN ELSE IF Lt(b, a) THEN b ELSE a

MathMin(a0, b0) == jsMin[a0, b0]

jsMax[a0 \in JSValue, b0 \in JSValue] ==
    LET a == ToNumber(a0)
        b == ToNumber(b0)
    IN  IF IsNaN(a) \/ IsNaN(b) THEN NaN ELSE IF Lt(a, b) THEN b ELSE a

MathMax(a0, b0) == jsMax[a0, b0]

RECURSIVE getArrayExtremes(_, _, _)
\* [lowest arr[k][minIndex], highest arr[k][maxIndex]] of the rows of arr.
\* The library folds from [Number.MAX_VALUE, -Number.MAX_VALUE]; the seeds
\* here are the infinities, which give the same extremes for every
\* non-empty window of finite values.
getArrayExtremes(arr, minIndex, maxIndex) ==
    IF Len(arr) = 0 THEN <<PosInf, NegInf>>
    ELSE LET n == Len(arr)
             prev == getArrayExtremes(SubSeq(arr, 1, n - 1), minIndex,
                                      maxIndex)
         IN  <<MathMin(prev[1], YAt(arr, n - 1, minIndex)),
               MathMax(prev[2], YAt(arr, n - 1, maxIndex))>>

\* arr.slice(from, to) for 0 <= from
Slice(arr, from, to) ==
    SubSeq(arr, from + 1, IF to < Len(arr) THEN to ELSE Len(arr))

\* the first k elements instead of the last k
SliceFirst(arr, k) == SubSeq(arr, 1, IF k < Len(arr) THEN k ELSE Len(arr))

\* arr.slice(-k) for k > 0
SliceLast(arr, k) ==
    SubSeq(arr, IF Len(arr) - k < 0 THEN 1 ELSE Len(arr) - k + 1, Len(arr))

\* mutant: accepts every array as a first row
StochInputRejectedAnyArray(yVal, periodK) ==
    Len(yVal) < periodK \/ ~isArray(RowAt(yVal, 0))

\* yValLen < periodK || !isArray(yVal[0]) || yVal[0].length !== 4
StochInputRejected(yVal, periodK) ==
    \/ Len(yVal) < periodK
    \/ ~isArray(RowAt(yVal, 0))
    \/ Len(RowAt(yVal, 0).v) # 4

\* mutant: the close is not measured from the lowest low
StochCLFromZero(closeValue, LL) == ToNumber(closeValue)

\* CL = yVal[i][close] - LL
StochCL(closeValue, LL) == Sub(closeValue, LL)

\* K = CL / HL * 100 over the window yVal.slice(i - periodK + 1, i + 1)
StochK(yVal, i, periodK) ==
    LET slicedY == Slice(yVal, i - periodK + 1, i + 1)
        extremes == getArrayExtremes(slicedY, 2, 1)
        LL == extremes[1]
        CL == StochCL(YAt(yVal, i, 3), LL)
        HL == Sub(extremes[2], LL)
    IN  Mul(Div(CL, HL), Num(100))

RECURSIVE StochLoop(_, _, _, _, _, _, _, _, _)
\* for (i = periodK - 1; i < yValLen; i++) { ... }
StochLoop(xVal, yVal, periodK, periodD, i, D, SO, xData, yData) ==
    IF i < Len(yVal)
    THEN LET K == StochK(yVal, i, periodK)
             xData1 == Append(xData, At(xVal, i))
             yData1 == Append(yData, ArrayRow(<<K, Null>>))
             points == SMAgetValues([xData |-> SliceLast(xData1, periodD),
                                     yData |-> SliceLast(yData1, periodD)],
                                    Params(periodD, NoIndex))
             D1 == IF i >= (periodK - 1) + (periodD - 1)
                   THEN At(points.yData, 0) ELSE D
         IN  StochLoop(xVal, yVal, periodK, periodD, i + 1, D1,
                       Append(SO, <<At(xVal, i), K, D1>>), xData1,
                       Append(yData, ArrayRow(<<K, D1>>)))
    ELSE [failed |-> FALSE, values |-> SO, xData |-> xData, yData |-> yData]

StochasticgetValues(s, params) ==
    LET periodK == params.periods[1]
        periodD == params.periods[2]
    IN  IF StochInputRejected(s.yData, periodK) THEN Failure
        ELSE StochLoop(s.xData, s.yData, periodK, periodD, periodK - 1, Null,
                       <<>>, <<>>, <<>>)

----------------------------------------------------------------------------
(* The indicator series and its recalculateValues handler *)

\* arr.indexOf(x): the 0-based position of the first element === x, or -1
IndexOf(arr, x) ==
    IF \E k \in 1..Len(arr) : StrictEq(arr[k], x)
    THEN (CHOOSE k \in 1..Len(arr) :
              /\ StrictEq(arr[k], x)
              /\ \A l \in 1..(k - 1) : ~StrictEq(arr[l], x)) - 1
    ELSE 0 - 1

\* Series.cropData with cropShoulder 1: the points inside [min, max] and one
\* point on either side
cropData(xData, yData, min, max) ==
    LET n == Len(xData)
        inside == {k \in 1..n : Le(min, xData[k])}
        i == IF inside = {} THEN n
             ELSE (CHOOSE k \in inside : \A l \in inside : k <= l) - 1
        start == IF inside = {} THEN 0 ELSE IF i - 1 > 0 THEN i - 1 ELSE 0
        beyond == {k \in (i + 1)..n : Lt(max, xData[k])}
        end == IF beyond = {} THEN n
               ELSE (CHOOSE k \in beyond : \A l \in beyond : k <= l) - 1 + 1
    IN  [xData |-> Slice(xData, start, end), yData |-> Slice(yData, start, end)]

\* Series.updateData(data) on the indicator: empty data touches no point
\* and changes nothing; other data either replaces the points one by one
\* (outcome "updated") or is refused (outcome "refused")
updateData(i, data, outcome) ==
    IF data = <<>> \/ outcome = "refused" THEN i
    ELSE [i EXCEPT !.points = [has |-> TRUE,
                               xs |-> [k \in 1..Len(data) |-> data[k][1]]],
                   !.xData = [k \in 1..Len(data) |-> data[k][1]],
                   !.yData = [k \in 1..Len(data) |-> data[k][2]],
                   !.data = data]

\* indicator.getValues(...) || { values: [], xData: [], yData: [] }
ProcessedData(res) ==
    IF res.failed THEN [values |-> <<>>, xData |-> <<>>, yData |-> <<>>]
    ELSE [values |-> res.values, xData |-> res.xData, yData |-> res.yData]

\* processedData.xData.length !== oldDataLength - 1 &&
\* processedData.xData.length !== oldDataLength + 1
RecalcNotAddOrRemove(processedData, oldDataLength) ==
    /\ Len(processedData.xData) # oldDataLength - 1
    /\ Len(processedData.xData) # oldDataLength + 1

\* if (overwriteData) { xData, yData, options.data = processedData... }
RecalcOverwrite(i, processedData) ==
    [i EXCEPT !.xData = processedData.xData,
              !.yData = processedData.yData,
              !.data = processedData.values]

\* the body of recalculateValues, given what getValues returned
recalculateValues(i, res, outcome) ==
    LET oldData == IF i.points.has THEN i.points.xs ELSE <<>>
        oldDataLength == Len(i.xData)
        processedData == ProcessedData(res)
    IN  IF oldDataLength # 0 /\ ~i.hasGroupedData /\ i.visible /\ i.points.has
        THEN IF i.cropped
             THEN LET croppedData == cropData(processedData.xData,
                                              processedData.yData,
                                              i.xAxis.min, i.xAxis.max)
                      croppedDataValues ==
                          [k \in 1..Len(croppedData.xData) |->
                              <<croppedData.xData[k], croppedData.yData[k]>>]
                      oldFirstPointIndex ==
                          IndexOf(processedData.xData, At(i.xData, 0))
                      oldLastPointIndex ==
                          IndexOf(processedData.xData,
                                  At(i.xData, Len(i.xData) - 1))
                      shifted ==
                          /\ oldFirstPointIndex = 0 - 1
                          /\ oldLastPointIndex = Len(processedData.xData) - 2
                  IN  IF shifted /\ (croppedDataValues = <<>> \/ oldData = <<>>)
                      THEN [i EXCEPT !.threw = TRUE]
                      ELSE LET values ==
                                   IF shifted /\ StrictEq(
                                          croppedDataValues[1][1], oldData[1])
                                   THEN Tail(croppedDataValues)
                                   ELSE croppedDataValues
                           IN  RecalcOverwrite(
                                   updateData(i, values, outcome),
                                   processedData)
             ELSE IF RecalcNotAddOrRemove(processedData, oldDataLength)
                  THEN updateData(i, processedData.values, outcome)
                  ELSE RecalcOverwrite(i, processedData)
        ELSE RecalcOverwrite(i, processedData)

----------------------------------------------------------------------------
(* Grid axis: tick size and the cell of a tick *)

\* Math.round: the nearest integer, halves rounded up
jsRound[a0 \in JSValue] ==
    LET a == ToNumber(a0)
    IN  IF ~IsFinite(a) THEN a
        ELSE Num((2 * a[1] + a[2]) \div (2 * a[2]))

MathRound(a0) == jsRound[a0]

\* Axis.defaultLeftAxisOptions.labels.x
DefaultLeftAxisLabelsX == 0 - 15

\* side 0 and 2 are top and bottom: the axis is horizontal
AxisHoriz(axis) == axis.side = 0 \/ axis.side = 2

\* pixels per axis unit, and the padding before the first tick mark
AxisTransA(axis) ==
    Div(axis.len, Add(Sub(axis.max, axis.min),
                      Mul(Num(2), axis.tickmarkOffset)))

\* Axis.translate(val): the pixel offset of a value along the axis
AxisTranslate(axis, val) ==
    LET transA == AxisTransA(axis)
        along == Add(Mul(Sub(val, axis.min), transA),
                     Mul(transA, axis.tickmarkOffset))
    IN  IF axis.reversed THEN Sub(axis.len, along) ELSE along

\* The tick size before the afterTickSize event: [length, width] when both
\* are non-zero, else undefined (the empty sequence)
AxisCoreTickSize(axis) ==
    IF axis.tickWidth # 0 /\ axis.tickLength # 0
    THEN [isArray |-> TRUE, v |-> <<Num(axis.tickLength), Num(axis.tickWidth)>>]
    ELSE [isArray |-> FALSE, v |-> <<>>]

\* the afterTickSize handler reads axis.maxLabelDimensions
AfterTickSizeThrows(axis) ==
    axis.enabled /\ ~axis.maxLabelDimensions.has

\* e.tickSize = [distance]
AfterTickSizeNew(distance) == <<distance>>

\* the afterTickSize handler: e.tickSize after the event
AfterTickSize(axis, e) ==
    IF axis.enabled
    THEN LET labelPadding == Num(Abs(DefaultLeftAxisLabelsX) * 2)
             distance == Add(labelPadding,
                             IF AxisHoriz(axis)
                             THEN axis.maxLabelDimensions.height
                             ELSE axis.maxLabelDimensions.width)
         IN  IF e.isArray
             THEN [isArray |-> TRUE, v |-> [e.v EXCEPT ![1] = distance]]
             ELSE [isArray |-> TRUE, v |-> AfterTickSizeNew(distance)]
    ELSE e

\* axis.tickSize('tick', true)
AxisTickSize(axis) == AfterTickSize(axis, AxisCoreTickSize(axis))

\* isNumber(tickPositions[e.index + 1]) ?
\*     tickPositions[e.index + 1] - tickmarkOffset : axis.max + tickmarkOffset
NextTickPos(axis, index) ==
    IF index + 1 < Len(axis.tickPositions)
    THEN Sub(At(axis.tickPositions, index + 1), axis.tickmarkOffset)
    ELSE Add(axis.max, axis.tickmarkOffset)

\* mutant: a centred label is anchored on the left edge of its cell
LabelAnchorXOnLeft(align, left, right) ==
    IF align = "right" THEN right ELSE left

\* align === 'left' ? left : align === 'right' ? right :
\*     left + ((right - left) / 2)
LabelAnchorX(align, left, right) ==
    IF align = "left" THEN left
    ELSE IF align = "right" THEN right
    ELSE Add(left, Div(Sub(right, left), Num(2)))

\* verticalAlign is the literal 'middle', not the labels' option:
\* verticalAlign === 'top' ? top : verticalAlign === 'bottom' ? bottom :
\*     top + ((bottom - top) / 2)
LabelAnchorY(top, bottom) ==
    LET verticalAlign == "middle"
    IN  IF verticalAlign = "top" THEN top
        ELSE IF verticalAlign = "bottom" THEN bottom
        ELSE Add(top, Div(Sub(bottom, top), Num(2)))

\* the adjustment of y for the font baseline and the number of lines
LabelBaselineCorrection(axis) ==
    LET m == axis.lblMetrics
        labelHeight == axis.labels.height
    IN  IF ~axis.labels.useHTML
        THEN LET lines == MathRound(Div(labelHeight, m.h))
             IN  Add(Div(Sub(m.b, Sub(m.h, m.f)), Num(2)),
                     Neg(Div(Mul(Sub(lines, Num(1)), m.h), Num(2))))
        ELSE Add(m.b, Neg(Div(labelHeight, Num(2))))

\* axis.horiz && labelOpts.x || 0
LabelOffsetX(axis) ==
    IF AxisHoriz(axis) /\ axis.labels.x # Num(0) THEN axis.labels.x
    ELSE Num(0)

\* the afterGetLabelPosition handler for the tick at e.index (0-based) and
\* the incoming label position pos: the cell of the tick, its slot width
\* and the label anchor
AfterGetLabelPosition(axis, index, pos) ==
    LET tickPos == Sub(At(axis.tickPositions, index), axis.tickmarkOffset)
        nextTickPos == NextTickPos(axis, index)
        tickSize == AxisTickSize(axis)
        tickWidth == IF tickSize.isArray THEN At(tickSize.v, 0) ELSE Num(0)
        crispCorr == Div(At(tickSize.v, 1), Num(2))
        reversed == axis.reversed
        from == IF reversed THEN nextTickPos ELSE tickPos
        to == IF reversed THEN tickPos ELSE nextTickPos
        bottom == IF axis.side = 0 THEN Add(axis.top, axis.offset)
                  ELSE IF axis.side = 2
                  THEN Add(Add(Sub(axis.chartHeight, axis.bottom),
                               axis.offset), tickWidth)
                  ELSE Sub(Add(axis.top, axis.len), AxisTranslate(axis, from))
        top == IF axis.side = 0 THEN Sub(bottom, tickWidth)
               ELSE IF axis.side = 2
               THEN Add(Sub(axis.chartHeight, axis.bottom), axis.offset)
               ELSE Sub(Add(axis.top, axis.len), AxisTranslate(axis, to))
        left == IF axis.side = 1
                THEN Add(Sub(axis.chartWidth, axis.right), axis.offset)
                ELSE IF axis.side = 3
                THEN Sub(Add(axis.left, axis.offset), tickWidth)
                ELSE Sub(MathRound(Add(axis.left, AxisTranslate(axis, from))),
                         crispCorr)
        right == IF axis.side = 1 THEN Add(left, tickWidth)
                 ELSE IF axis.side = 3 THEN Add(axis.left, axis.offset)
                 ELSE Sub(MathRound(Add(axis.left, AxisTranslate(axis, to))),
                          crispCorr)
        x == Add(LabelAnchorX(axis.labels.align, left, right),
                 LabelOffsetX(axis))
        y == Add(LabelAnchorY(top, bottom), LabelBaselineCorrection(axis))
    IN  IF axis.enabled
        THEN [rendered |-> TRUE, left |-> left, right |-> right, top |-> top,
              bottom |-> bottom, slotWidth |-> Sub(right, left),
              x |-> x, y |-> y]
        ELSE [rendered |-> TRUE, left |-> Undefined, right |-> Undefined,
              top |-> Undefined, bottom |-> Undefined,
              slotWidth |-> Undefined, x |-> pos.x, y |-> pos.y]

----------------------------------------------------------------------------
(* Grid axis: the outermost axis of a side *)

\* The axes of one collection are a sequence; axis k has a side, the
\* isInternal option, and columns = [has, n]: whether it owns a columns
\* array and how many sub-columns that array holds.  A sub-column is not in
\* the collection; it is named by its owner k and its columnIndex c > 0 and
\* is linked to the first axis of the collection (linkedTo: 0).

\* mutant: the highest index is taken over the axes of every side
SameSideAnySide(otherAxis, side) == ~otherAxis.isInternal

\* otherAxis.side === axis.side && !otherAxis.options.isInternal
SameSide(otherAxis, side) ==
    otherAxis.side = side /\ ~otherAxis.isInternal

RECURSIVE OuterAxisScan(_, _, _, _, _, _)
\* chart[axis.coll].forEach(...): [lastIndex, thisIndex] after the axes
\* from 0-based index on
OuterAxisScan(axes, side, parentIndex, index, lastIndex, thisIndex) ==
    IF index >= Len(axes) THEN <<lastIndex, thisIndex>>
    ELSE IF SameSide(axes[index + 1], side)
         THEN OuterAxisScan(axes, side, parentIndex, index + 1, index,
                            IF index = parentIndex THEN index ELSE thisIndex)
         ELSE OuterAxisScan(axes, side, parentIndex, index + 1, lastIndex,
                            thisIndex)

\* Axis.prototype.isOuterAxis for the axis at 0-based index k (c = 0) or
\* for its sub-column c: "true", "false", or "throws" when columns.length
\* is read from an undefined columns
isOuterAxis(axes, k, c) ==
    LET axis == axes[k + 1]
        isColumn == c > 0
        linkedParent == axes[1]
        hasColumnIndex == isColumn \/ axis.columns.has
        columnIndex == IF isColumn THEN c ELSE 0
        columns == IF isColumn
                   THEN (IF linkedParent.columns.has
                         THEN linkedParent.columns
                         ELSE [has |-> FALSE, n |-> 0])
                   ELSE axis.columns
        parentIndex == IF isColumn THEN 0 ELSE k
        scan == OuterAxisScan(axes, axis.side, parentIndex, 0, 0, 0 - 1)
    IN  IF scan[1] # scan[2] THEN "false"
        ELSE IF hasColumnIndex
             THEN (IF ~columns.has THEN "throws"
                   ELSE IF columns.n = columnIndex THEN "true" ELSE "false")
        ELSE "true"

----------------------------------------------------------------------------
(* Inputs *)

\* xData of a series of n points: strictly increasing
XData(n) == [i \in 1..n |-> Num(XBase + i)]

SeriesOf(yVal) ==
    [xData |-> XData(Len(yVal)), yData |-> yVal, EMApercent |-> Undefined]

RECURSIVE SeqsUpTo(_, _)
\* all sequences over S of length 0..n
SeqsUpTo(S, n) ==
    IF n = 0 THEN {<<>>}
    ELSE LET shorter == SeqsUpTo(S, n - 1)
         IN  shorter \cup
             {Append(q, e) : q \in {r \in shorter : Len(r) = n - 1}, e \in S}

ScalarRows == {Scalar(Num(v)) : v \in 0..MaxVal}

\* open, high, low, close
OHLC(o, h, l, c) == ArrayRow(<<Num(o), Num(h), Num(l), Num(c)>>)

OHLCRows == {OHLC(1, 2, 0, 1), OHLC(2, 2, 1, 1), OHLC(0, 1, 0, 1)}

ExampleY == [i \in 1..5 |-> Scalar(Num(i))]

InputsSMA ==
    SeqsUpTo(ScalarRows, MaxLenSMA) \cup SeqsUpTo(OHLCRows, MaxLenSMA)
        \cup {ExampleY}

IndexParams == {NoIndex} \cup {WithIndex(i) : i \in 0..3}

\* no indicator series / no grid axis on the chart
NoIndicator == [bound |-> FALSE]
NoGrid == [enabled |-> FALSE]

NoCall == [kind |-> "none", linked |-> 0, params |-> Params(0, NoIndex),
           res |-> Failure, ema |-> 0]

----------------------------------------------------------------------------
(* Specification of SMA.getValues over one linked series *)

InitSMA ==
    /\ \E y \in InputsSMA : series = <<SeriesOf(y)>>
    /\ out = NoCall
    /\ errors = 0
    /\ ind = NoIndicator
    /\ grid = NoGrid

SMA_getValues ==
    \E p \in 1..MaxPeriod, idx \in IndexParams :
        /\ out' = [kind |-> "sma", linked |-> 0, params |-> Params(p, idx),
                   res |-> SMAgetValues(series[1], Params(p, idx)), ema |-> 0]
        /\ UNCHANGED <<series, errors, ind, grid>>

NextSMA == SMA_getValues

SpecSMA == InitSMA /\ [][NextSMA]_vars

\* arithmetic mean of y[k .. k + p - 1], computed from scratch
RECURSIVE SumRange(_, _, _, _)
SumRange(yVal, index, lo, hi) ==
    IF lo > hi THEN Num(0)
    ELSE Add(YAt(yVal, lo, index), SumRange(yVal, index, lo + 1, hi))

Mean(yVal, index, k, p) == Div(SumRange(yVal, index, k, k + p - 1), Num(p))

\* the OHLC component a call selects: params.index, 0 when absent; -1 on scalars
Selected(yVal, idx) ==
    IF Len(yVal) > 0 /\ yVal[1].isArray
    THEN (IF idx.has THEN idx.i ELSE 0)
    ELSE 0 - 1

\* C1: SMA.getValues fails when n < p and otherwise returns exactly
\* n - p + 1 points, the k-th being [xData[k + p - 1], mean of y[k .. k+p-1]]
C1_SMAWindowMeans ==
    out.kind = "sma" =>
        LET s == series[out.linked + 1]
            n == Len(s.yData)
            p == out.params.period
            index == Selected(s.yData, out.params.index)
        IN  /\ n < p => out.res = Failure
            /\ n >= p =>
                  /\ ~out.res.failed
                  /\ Len(out.res.values) = n - p + 1
                  /\ \A k \in 0..(n - p) :
                        out.res.values[k + 1] =
                            <<s.xData[k + p], Mean(s.yData, index, k, p)>>
                  /\ out.res.xData = [k \in 1..(n - p + 1) |-> s.xData[k + p - 1]]
                  /\ out.res.yData =
                        [k \in 1..(n - p + 1) |-> Mean(s.yData, index, k - 1, p)]

\* period 3 over y = [1,2,3,4,5] gives [2,3,4] at the x of positions 2,3,4
C1_Witness ==
    /\ out.kind = "sma"
    /\ series[1].yData = ExampleY
    /\ out.params.period = 3
    /\ out.res.yData = <<Num(2), Num(3), Num(4)>>
    /\ out.res.xData = <<Num(XBase + 3), Num(XBase + 4), Num(XBase + 5)>>

----------------------------------------------------------------------------
(* Specification of the EMA cascades DEMA and TEMA on a chart of two series *)

\* scalar input families of every length 0..MaxLenCascade
Ramp(n) == [i \in 1..n |-> Scalar(Num(i))]
Zigzag(n) == [i \in 1..n |-> Scalar(Num((i * i) % 5))]
\* an OHLC family
Candles(n) == [i \in 1..n |-> OHLC(i, i + 2, i \div 2, ((i * i) % 3) + (i \div 2))]

\* the first series of the chart
InputsCascade ==
    UNION {{Ramp(n), Zigzag(n), Candles(n)} : n \in 0..MaxLenCascade}

\* params.index as the chart configures it: the close of OHLC data
CascadeIndexParams == {WithIndex(3)}

\* the two series of the chart share the x axis
InitCascade ==
    /\ \E y0 \in InputsCascade :
            series = <<SeriesOf(y0), SeriesOf(Zigzag(Len(y0)))>>
    /\ out = NoCall
    /\ errors = 0
    /\ ind = NoIndicator
    /\ grid = NoGrid

DEMA_getValues ==
    \E linked \in 0..1, p \in 1..MaxPeriod, idx \in CascadeIndexParams :
        LET chart == SetEMApercent(series, linked, p)
        IN  /\ series' = chart
            /\ out' = [kind |-> "dema", linked |-> linked,
                       params |-> Params(p, idx),
                       res |-> DEMAgetValues(chart, linked, Params(p, idx)),
                       ema |-> 0]
            /\ UNCHANGED <<errors, ind, grid>>

TEMA_getValues ==
    \E linked \in 0..1, p \in 1..MaxPeriod, idx \in CascadeIndexParams :
        LET chart == SetEMApercent(series, linked, p)
        IN  /\ series' = chart
            /\ out' = [kind |-> "tema", linked |-> linked,
                       params |-> Params(p, idx),
                       res |-> TEMAgetValues(chart, linked, Params(p, idx)),
                       ema |-> 0]
            /\ UNCHANGED <<errors, ind, grid>>

NextCascade == DEMA_getValues \/ TEMA_getValues

SpecCascade == InitCascade /\ [][NextCascade]_vars

\* Reference EMA of a sequence of numbers, by position: element 1 is the mean
\* of the first p values, element k + 1 is ys[p + k] * f + element k * (1 - f)
RECURSIVE RefEMAFrom(_, _, _, _)
RefEMAFrom(ys, p, f, acc) ==
    IF Len(acc) >= Len(ys) - p + 1 THEN acc
    ELSE RefEMAFrom(ys, p, f,
             Append(acc, correctFloat(
                 Add(Mul(ys[p + Len(acc)], f),
                     Mul(acc[Len(acc)], Sub(Num(1), f))))))

RECURSIVE SumSeq(_, _)
SumSeq(ys, k) == IF k = 0 THEN Num(0) ELSE Add(SumSeq(ys, k - 1), ys[k])

RefEMA(ys, p, f) ==
    IF Len(ys) < p THEN <<>>
    ELSE RefEMAFrom(ys, p, f, <<Div(SumSeq(ys, p), Num(p))>>)

\* the component of the linked series a call smooths, as numbers
Component(s, idx) ==
    [i \in 1..Len(s.yData) |-> YAt(s.yData, i - 1, Selected(s.yData, idx))]

\* the 0-based input position whose x is x
PosOf(s, x) == CHOOSE q \in 0..(Len(s.xData) - 1) : s.xData[q + 1] = x

\* level k (1, 2, 3) of the reference cascade at input position q
RefLevel(s, idx, p, f, k, q) ==
    LET E1 == RefEMA(Component(s, idx), p, f)
        E2 == RefEMA(E1, p, f)
        E3 == RefEMA(E2, p, f)
    IN  IF k = 1 THEN E1[q - (p - 1) + 1]
        ELSE IF k = 2 THEN E2[q - 2 * (p - 1) + 1]
        ELSE E3[q - 3 * (p - 1) + 1]

\* C2: every DEMA output equals 2*EMA1 - EMA2 at the input position of its
\* x, EMA1 and EMA2 being the reference cascade with factor 2/(p+1)
C2_DEMAIsTwiceEMAMinusEMAofEMA ==
    (out.kind = "dema" /\ ~out.res.failed) =>
        LET s == series[out.linked + 1]
            p == out.params.period
            f == SmoothingFactor(p)
        IN  \A j \in 1..Len(out.res.values) :
                LET q == PosOf(s, out.res.values[j][1])
                IN  out.res.values[j][2] =
                        correctFloat(Sub(
                            Mul(Num(2), RefLevel(s, out.params.index, p, f, 1, q)),
                            RefLevel(s, out.params.index, p, f, 2, q)))

\* The identity of C2 for an indicator linked to the first series of the chart
DEMAIdentityOnFirstSeries ==
    out.linked = 0 => C2_DEMAIsTwiceEMAMinusEMAofEMA

\* depth of the cascade of the last call
Depth == IF out.kind = "dema" THEN 2 ELSE 3

\* C3: a cascade of depth k fails exactly when n < k*p - (k-1); otherwise it
\* returns exactly n - k*p + k points, the j-th with x = xData[k*p - k + j],
\* the last one at the last input x
C3_CascadeLengthAndAlignment ==
    out.kind \in {"dema", "tema"} =>
        LET s == series[out.linked + 1]
            n == Len(s.yData)
            p == out.params.period
            k == Depth
        IN  /\ out.res.failed <=> n < k * p - (k - 1)
            /\ ~out.res.failed =>
                  /\ Len(out.res.values) = n - k * p + k
                  /\ Len(out.res.values) >= 1
                  /\ \A j \in 0..(n - k * p + k - 1) :
                        out.res.values[j + 1][1] = s.xData[k * p - k + j + 1]
                  /\ out.res.values[Len(out.res.values)][1] = s.xData[n]
                  /\ Len(out.res.xData) = Len(out.res.values)
                  /\ Len(out.res.yData) = Len(out.res.values)

C3_Witness ==
    /\ out.kind = "tema"
    /\ out.params.period = 2
    /\ Len(series[out.linked + 1].yData) = 6
    /\ Len(out.res.values) = 3

\* C4: every TEMA output is 3*L1 - 3*L2 + L3 with the three levels taken at
\* the input position of the output's x; no level entry read for an output
\* is one that a run-off iteration computed past the end of the EMA arrays
C4_TEMALevelsAligned ==
    (out.kind = "tema" /\ ~out.res.failed) =>
        LET s == series[out.linked + 1]
            n == Len(s.yData)
            p == out.params.period
            f == series[1].EMApercent
            idx == out.params.index
        IN  /\ \A j \in 1..Len(out.res.values) :
                  LET q == PosOf(s, out.res.values[j][1])
                  IN  out.res.values[j][2] =
                          correctFloat(Add(Sub(
                              Mul(Num(3), RefLevel(s, idx, p, f, 1, q)),
                              Mul(Num(3), RefLevel(s, idx, p, f, 2, q))),
                              RefLevel(s, idx, p, f, 3, q)))
            /\ \A i \in (3 * p)..(n + 2) :
                  /\ TEMALevel1Index(i, p) \in 0..(n - p)
                  /\ TEMALevel2Index(i, p) \in 0..(n + 1 - 2 * p)

C4_Witness ==
    /\ out.kind = "tema"
    /\ out.linked = 0
    /\ out.params.period = 2
    /\ Len(series[1].yData) = MaxLenCascade
    /\ Len(out.res.values) >= 2
    /\ \A j \in 1..Len(out.res.values) : IsFinite(out.res.values[j][2])

\* the chart in which the first series carries the smoothing factor of the
\* indicator of the last call
ChartWithOwnFactor ==
    [series EXCEPT ![1].EMApercent = SmoothingFactor(out.params.period)]

\* C18: DEMA.getValues and TEMA.getValues are functions of the linked
\* series' data and the params alone: the result is the one computed with
\* the factor 2/(period+1) of the indicator's own period, whichever series
\* the indicator is linked to and whatever was computed on the chart before.
C18_CascadeDependsOnOwnSeriesAndParams ==
    /\ out.kind = "dema" =>
           out.res = DEMAgetValues(ChartWithOwnFactor, out.linked, out.params)
    /\ out.kind = "tema" =>
           out.res = TEMAgetValues(ChartWithOwnFactor, out.linked, out.params)

\* what holds: an indicator linked to the first series of the chart smooths
\* with its own factor
CascadeOwnFactorOnFirstSeries ==
    out.linked = 0 => C18_CascadeDependsOnOwnSeriesAndParams

----------------------------------------------------------------------------
(* Specification of PPO.getValues over one linked series *)

InputsPPO == UNION {{Ramp(n), Zigzag(n), Candles(n)} : n \in 0..MaxLenPPO}

PeriodTuples == SeqsUpTo(1..MaxPeriod, MaxPeriodsLen)

InitPPO ==
    /\ \E y \in InputsPPO : series = <<SeriesOf(y)>>
    /\ out = NoCall
    /\ errors = 0
    /\ ind = NoIndicator
    /\ grid = NoGrid

PPO_getValues ==
    \E periods \in PeriodTuples, idx \in CascadeIndexParams :
        LET r == PPOgetValues(series[1], ParamsOf(periods, idx))
        IN  /\ errors + r[2] <= MaxErrors
            /\ out' = [kind |-> "ppo", linked |-> 0,
                       params |-> ParamsOf(periods, idx),
                       res |-> r[1], ema |-> r[3]]
            /\ errors' = errors + r[2]
            /\ UNCHANGED <<series, ind, grid>>

NextPPO == PPO_getValues

SpecPPO == InitPPO /\ [][NextPPO]_vars

\* periods is not a pair [short, long] with short < long
BadPeriods(periods) ==
    ~(Len(periods) = 2 /\ periods[1] < periods[2])

\* C8: with periods that are not exactly two or not strictly increasing,
\* PPO.getValues returns false, reports an error and computes nothing; it
\* also returns false when one of the two EMA computations fails, and a
\* result that is returned is the complete series
C8_PPORejectsBadPeriods ==
    [][ out'.kind = "ppo" =>
          LET periods == out'.params.periods
              n == Len(series[1].yData)
          IN  /\ BadPeriods(periods) =>
                    /\ out'.res = Failure
                    /\ errors' = errors + 1
                    /\ out'.ema = 0
              /\ (~BadPeriods(periods) /\ (n < periods[1] \/ n < periods[2]))
                    => out'.res = Failure /\ errors' = errors
              /\ ~out'.res.failed =>
                    /\ Len(out'.res.values) = n - periods[2] + 1
                    /\ out'.res.xData =
                          [k \in 1..(n - periods[2] + 1) |->
                              series[1].xData[k + periods[2] - 1]]
      ]_vars

C8_Witness ==
    /\ out.kind = "ppo"
    /\ out.params.periods = <<2, 2>>
    /\ out.res = Failure
    /\ errors = 1
    /\ Len(series[1].yData) = MaxLenPPO

----------------------------------------------------------------------------
(* Specification of Stochastic.getValues over one linked series *)

\* rows of the linked series: well-formed candles, a flat candle, a candle
\* whose close lies above its high, and rows that are not 4-tuples
StochRows ==
    {OHLC(1, 2, 0, 1), OHLC(1, 2, 1, 2), OHLC(1, 1, 1, 1), OHLC(1, 2, 1, 3),
     Scalar(Num(1)), ArrayRow(<<Num(1), Num(2), Num(0)>>)}

InputsStoch == SeqsUpTo(StochRows, MaxLenStoch)

InitStoch ==
    /\ \E y \in InputsStoch : series = <<SeriesOf(y)>>
    /\ out = NoCall
    /\ errors = 0
    /\ ind = NoIndicator
    /\ grid = NoGrid

Stochastic_getValues ==
    \E periodK \in 1..MaxPeriod, periodD \in 1..MaxPeriod :
        /\ out' = [kind |-> "stoch", linked |-> 0,
                   params |-> ParamsOf(<<periodK, periodD>>, NoIndex),
                   res |-> StochasticgetValues(series[1],
                               ParamsOf(<<periodK, periodD>>, NoIndex)),
                   ema |-> 0]
        /\ UNCHANGED <<series, errors, ind, grid>>

NextStoch == Stochastic_getValues

SpecStoch == InitStoch /\ [][NextStoch]_vars

IsTuple4(row) == row.isArray /\ Len(row.v) = 4
AllTuple4(yVal) == \A k \in 1..Len(yVal) : IsTuple4(yVal[k])

\* low <= close <= high
CloseInRange(row) == Le(row.v[3], row.v[4]) /\ Le(row.v[4], row.v[2])

\* rows (1-based) of the %K window of output point j
Window(periodK, j) == j..(j + periodK - 1)

\* the highest high of the window exceeds / equals its lowest low
HighAboveLow(yVal, W) ==
    \E a \in W, b \in W : Lt(yVal[b].v[3], yVal[a].v[2])
HighEqualsLow(yVal, W) ==
    /\ ~HighAboveLow(yVal, W)
    /\ \E a \in W, b \in W : yVal[b].v[3] = yVal[a].v[2]

InUnitRange(K) == Le(Num(0), K) /\ Le(K, Num(100))

StochCalled == out.kind = "stoch"
StochPeriodK == out.params.periods[1]
StochPoints == 1..Len(out.res.values)

\* C5: for every input of 4-component rows, each emitted %K whose window
\* has highest high > lowest low lies in [0, 100]
C5_PercentKInRange ==
    (StochCalled /\ AllTuple4(series[1].yData)) =>
        \A j \in StochPoints :
            HighAboveLow(series[1].yData, Window(StochPeriodK, j))
                => InUnitRange(out.res.values[j][2])

\* C5 (amended): the same, for rows whose close lies between low and high
C5_PercentKInRangeForCandles ==
    (/\ StochCalled
     /\ AllTuple4(series[1].yData)
     /\ \A k \in 1..Len(series[1].yData) : CloseInRange(series[1].yData[k]))
      => /\ ~out.res.failed <=> Len(series[1].yData) >= StochPeriodK
         /\ Len(out.res.values) =
               (IF out.res.failed THEN 0
                ELSE Len(series[1].yData) - StochPeriodK + 1)
         /\ \A j \in StochPoints :
               HighAboveLow(series[1].yData, Window(StochPeriodK, j))
                   => InUnitRange(out.res.values[j][2])

C5_Witness ==
    /\ StochCalled
    /\ StochPeriodK = 2
    /\ series[1].yData = <<OHLC(1, 2, 1, 2), OHLC(1, 2, 0, 1), OHLC(1, 2, 1, 2)>>
    /\ Len(out.res.values) = 2
    /\ out.res.values[1][2] = Num(50)
    /\ out.res.values[2][2] = Num(100)

\* C6: when the highest high equals the lowest low in a %K window, the %K
\* emitted for the point is a finite number, and so is every %D that has
\* been computed
C6_FlatWindowGuarded ==
    (StochCalled /\ AllTuple4(series[1].yData)) =>
        \A j \in StochPoints :
            HighEqualsLow(series[1].yData, Window(StochPeriodK, j))
                => /\ IsFinite(out.res.values[j][2])
                   /\ out.res.values[j][3] = Null
                         \/ IsFinite(out.res.values[j][3])

\* C7: getValues returns false, with no output, whenever the series has
\* fewer than periodK points or some row is not an array of length 4
C7_RejectsNonOHLC ==
    (/\ StochCalled
     /\ \/ Len(series[1].yData) < StochPeriodK
        \/ ~AllTuple4(series[1].yData))
      => out.res = Failure

\* C7 (amended): getValues returns false, with no output, exactly when the
\* series has fewer than periodK points or its first row is not an array of
\* length 4
C7_RejectsByFirstRow ==
    StochCalled =>
        /\ out.res.failed <=>
              \/ Len(series[1].yData) < StochPeriodK
              \/ ~IsTuple4(RowAt(series[1].yData, 0))
        /\ out.res.failed => out.res = Failure
        /\ ~out.res.failed =>
              Len(out.res.values) = Len(series[1].yData) - StochPeriodK + 1

C7_Witness ==
    /\ StochCalled
    /\ StochPeriodK = 1
    /\ Len(series[1].yData) = 2
    /\ ~IsTuple4(series[1].yData[1])
    /\ series[1].yData[1].isArray
    /\ out.res = Failure

\* the %K values of the output points from..to, added up in order
RECURSIVE SumOfK(_, _, _)
SumOfK(values, from, to) ==
    IF to < from THEN Num(0)
    ELSE Add(SumOfK(values, from, to - 1), values[to][2])

MeanOfK(values, from, to) ==
    Div(SumOfK(values, from, to), Num(to - from + 1))

StochPeriodD == out.params.periods[2]

\* C25: for a valid OHLC series of length n >= periodK, getValues returns
\* exactly n - periodK + 1 points aligned to the last n - periodK + 1 x
\* values; the first periodD - 1 of them have %D = null and every later
\* point j has %D equal to the arithmetic mean of %K[j - periodD + 1 .. j]
C25_PercentDIsMeanOfPercentK ==
    (/\ StochCalled
     /\ AllTuple4(series[1].yData)
     /\ Len(series[1].yData) >= StochPeriodK)
      => /\ ~out.res.failed
         /\ Len(out.res.values) = Len(series[1].yData) - StochPeriodK + 1
         /\ Len(out.res.xData) = Len(out.res.values)
         /\ Len(out.res.yData) = Len(out.res.values)
         /\ \A j \in StochPoints :
               /\ out.res.values[j][1] = series[1].xData[StochPeriodK - 1 + j]
               /\ out.res.xData[j] = out.res.values[j][1]
               /\ out.res.yData[j] =
                     ArrayRow(<<out.res.values[j][2], out.res.values[j][3]>>)
               /\ out.res.values[j][3] =
                     IF j <= StochPeriodD - 1 THEN Null
                     ELSE MeanOfK(out.res.values, j - StochPeriodD + 1, j)

\* three points with %K = 50, 100, 100: %D is null, 75, 100 for periodD = 2
C25_Witness ==
    /\ StochCalled
    /\ StochPeriodK = 1
    /\ StochPeriodD = 2
    /\ series[1].yData = <<OHLC(1, 2, 0, 1), OHLC(1, 2, 1, 2), OHLC(1, 2, 1, 2)>>
    /\ Len(out.res.values) = 3
    /\ out.res.values[1][3] = Null
    /\ out.res.values[2][3] = Num(75)
    /\ out.res.values[3][3] = Num(100)

----------------------------------------------------------------------------
(* Specification of an SMA indicator bound to the series it is linked to *)

InputsRecalc == UNION {{Ramp(n), Zigzag(n)} : n \in 0..MaxLenRecalc}

UpdateOutcomes == {"updated", "refused"}

\* the indicator after Series.init: no data, no points yet
NewIndicator(p, visible) ==
    [bound |-> TRUE, params |-> Params(p, NoIndex),
     xData |-> <<>>, yData |-> <<>>, data |-> <<>>,
     points |-> [has |-> FALSE, xs |-> <<>>],
     visible |-> visible, cropped |-> FALSE, hasGroupedData |-> FALSE,
     xAxis |-> [min |-> Undefined, max |-> Undefined],
     threw |-> FALSE]

RecalcCall(res) ==
    [kind |-> "recalc", linked |-> 0, params |-> ind.params, res |-> res,
     ema |-> 0]

\* init() with calculateOn 'init': the first recalculateValues has run
InitRecalc ==
    /\ \E y \in InputsRecalc, p \in 1..MaxPeriod, visible \in BOOLEAN :
          LET res == SMAgetValues(SeriesOf(y), Params(p, NoIndex))
          IN  /\ series = <<SeriesOf(y)>>
              /\ ind = recalculateValues(NewIndicator(p, visible), res,
                                         "refused")
              /\ out = [kind |-> "recalc", linked |-> 0,
                        params |-> Params(p, NoIndex), res |-> res, ema |-> 0]
    /\ errors = 0
    /\ grid = NoGrid

\* the linked series gets new data and fires updatedData
Parent_updatedData ==
    \E y \in InputsRecalc, outcome \in UpdateOutcomes :
        LET res == SMAgetValues(SeriesOf(y), ind.params)
        IN  /\ series' = <<SeriesOf(y)>>
            /\ ind' = recalculateValues([ind EXCEPT !.threw = FALSE], res,
                                        outcome)
            /\ out' = RecalcCall(res)
            /\ UNCHANGED <<errors, grid>>

\* the chart renders the visible indicator: its points are generated from
\* its data, all of them or the part inside the axis extremes
Indicator_render ==
    /\ ind.visible
    /\ \E cropped \in BOOLEAN, grouped \in BOOLEAN,
          min \in {Num(XBase + 2)}, max \in {Num(XBase + 2), Num(XBase + 3)} :
          ind' = [ind EXCEPT
                    !.cropped = cropped,
                    !.hasGroupedData = grouped,
                    !.xAxis = [min |-> min, max |-> max],
                    !.points =
                        [has |-> TRUE,
                         xs |-> IF cropped
                                THEN cropData(ind.xData, ind.yData, min,
                                              max).xData
                                ELSE ind.xData]]
    /\ UNCHANGED <<series, out, errors, grid>>

\* the user hides or shows the indicator
Indicator_setVisible ==
    /\ ind' = [ind EXCEPT !.visible = ~ind.visible]
    /\ UNCHANGED <<series, out, errors, grid>>

NextRecalc == Parent_updatedData \/ Indicator_render \/ Indicator_setVisible

SpecRecalc == InitRecalc /\ [][NextRecalc]_vars

\* C9: when getValues returned false in the last recalculation, the
\* recalculation did not throw and the indicator has nothing to plot: its
\* xData, yData and options.data are empty
C9_FailedRecalcLeavesNothing ==
    (out.kind = "recalc" /\ out.res.failed) =>
        /\ ~ind.threw
        /\ ind.xData = <<>>
        /\ ind.yData = <<>>
        /\ ind.data = <<>>

\* what does hold: a failed recalculation never throws, and it empties the
\* indicator in the branches that overwrite the data
FailedRecalcDoesNotThrow ==
    (out.kind = "recalc" /\ out.res.failed) => ~ind.threw

----------------------------------------------------------------------------
(* Specification of the cells of one grid axis *)

\* tick positions first, first + step, ... : two to MaxTicks ticks
TickPositions(n, first, step) == [k \in 1..n |-> Num(first + step * (k - 1))]

TickSets ==
    {TickPositions(n, first, step) :
        n \in 2..MaxTicks, first \in {0}, step \in {1, 2}}

NoTick ==
    [rendered |-> FALSE, left |-> Undefined, right |-> Undefined,
     top |-> Undefined, bottom |-> Undefined, slotWidth |-> Undefined,
     x |-> Undefined, y |-> Undefined]

\* options.labels with the height of the rendered label
LabelOptions(align, verticalAlign, x, useHTML, height) ==
    [align |-> align, verticalAlign |-> verticalAlign, x |-> Num(x),
     useHTML |-> useHTML, height |-> Num(height)]

LabelConfigs ==
    {LabelOptions("left", "top", 0, FALSE, 16),
     LabelOptions("center", "middle", 0, FALSE, 32),
     LabelOptions("right", "bottom", 0, TRUE, 16),
     LabelOptions("center", "bottom", 5, FALSE, 16)}

\* label positions computed by the tick before the event
RawPositions == {[x |-> Num(1), y |-> Num(2)], [x |-> Num(40), y |-> Num(60)]}

\* the axis after init and setScale; nothing is rendered yet
InitGrid ==
    /\ \E enabled \in BOOLEAN, side \in 0..3, reversed \in BOOLEAN,
          tickWidth \in {0, 1}, tp \in TickSets,
          tickmarkOffset \in {Num(0), <<1, 2>>},
          labels \in LabelConfigs :
          grid = [enabled |-> enabled, side |-> side, reversed |-> reversed,
                  left |-> Num(10), top |-> Num(20), len |-> Num(50),
                  offset |-> Num(0), right |-> Num(10), bottom |-> Num(30),
                  chartWidth |-> Num(70), chartHeight |-> Num(100),
                  min |-> tp[1], max |-> tp[Len(tp)],
                  tickPositions |-> tp, tickmarkOffset |-> tickmarkOffset,
                  tickWidth |-> tickWidth, tickLength |-> 25,
                  labels |-> labels,
                  lblMetrics |-> [h |-> Num(16), b |-> Num(13), f |-> Num(13)],
                  maxLabelDimensions |->
                      [has |-> FALSE, width |-> Undefined,
                       height |-> Undefined],
                  ticks |-> [k \in 1..Len(tp) |-> NoTick],
                  threw |-> FALSE]
    /\ series = <<>>
    /\ out = NoCall
    /\ errors = 0
    /\ ind = NoIndicator

\* afterRender of a grid axis measures the labels
Axis_afterRender ==
    /\ grid.enabled
    /\ \E width \in {Num(20), Num(35)} :
          grid' = [grid EXCEPT !.maxLabelDimensions =
                      [has |-> TRUE, width |-> width, height |-> Num(17)]]
    /\ UNCHANGED <<series, out, errors, ind>>

\* a tick positions its label: afterGetLabelPosition fires for the tick
Tick_afterGetLabelPosition ==
    /\ \E k \in 1..Len(grid.tickPositions), pos \in RawPositions :
          grid' = IF AfterTickSizeThrows(grid)
                  THEN [grid EXCEPT !.threw = TRUE]
                  ELSE [grid EXCEPT !.ticks[k] =
                                        AfterGetLabelPosition(grid, k - 1, pos),
                                    !.threw = FALSE]
    /\ UNCHANGED <<series, out, errors, ind>>

NextGrid == Axis_afterRender \/ Tick_afterGetLabelPosition

SpecGrid == InitGrid /\ [][NextGrid]_vars

GridHorizontalForward == grid.enabled /\ AxisHoriz(grid) /\ ~grid.reversed

AllTicksRendered == \A k \in 1..Len(grid.ticks) : grid.ticks[k].rendered

RECURSIVE SlotWidthSum(_)
\* the slot widths of the ticks 1..k, summed
SlotWidthSum(k) ==
    IF k = 0 THEN Num(0)
    ELSE Add(SlotWidthSum(k - 1), grid.ticks[k].slotWidth)

CellsTile ==
    /\ \A k \in 1..(Len(grid.ticks) - 1) :
          (grid.ticks[k].rendered /\ grid.ticks[k + 1].rendered)
              => StrictEq(grid.ticks[k].right, grid.ticks[k + 1].left)
    /\ AllTicksRendered =>
          StrictEq(SlotWidthSum(Len(grid.ticks) - 1),
                   Sub(grid.ticks[Len(grid.ticks)].left, grid.ticks[1].left))

\* C10: on a grid-enabled, non-reversed horizontal axis the right boundary
\* of the cell of tick i equals the left boundary of the cell of tick i+1,
\* and the slot widths of all ticks but the last sum to the distance between
\* the first and the last cell's left boundaries
C10_CellsTile == GridHorizontalForward => CellsTile

\* what does hold: the cells tile when the axis has a tick width, so that
\* the tick size is a pair [length, width]
CellsTileWithTickWidth ==
    (GridHorizontalForward /\ grid.tickWidth # 0) => CellsTile

CellsTileReached ==
    /\ GridHorizontalForward
    /\ grid.tickWidth # 0
    /\ AllTicksRendered
    /\ grid.tickmarkOffset = <<1, 2>>
    /\ Len(grid.ticks) = MaxTicks

GridTicks == 1..Len(grid.ticks)

\* the label anchor the claim describes for a cell
ClaimedAnchorX(t) ==
    IF grid.labels.align = "left" THEN t.left
    ELSE IF grid.labels.align = "right" THEN t.right
    ELSE Div(Add(t.left, t.right), Num(2))

ClaimedAnchorY(t, verticalAlign) ==
    IF verticalAlign = "top" THEN t.top
    ELSE IF verticalAlign = "bottom" THEN t.bottom
    ELSE Div(Add(t.top, t.bottom), Num(2))

\* C11: on a grid-enabled axis the label anchor is x = left, right or
\* (left+right)/2 for align left/right/center and, before the baseline
\* correction, y = top, bottom or (top+bottom)/2 for the verticalAlign
\* configured on the labels
C11_LabelAnchoredInCell ==
    grid.enabled =>
        \A k \in GridTicks :
            grid.ticks[k].rendered =>
                /\ grid.ticks[k].x = ClaimedAnchorX(grid.ticks[k])
                /\ grid.ticks[k].y =
                      Add(ClaimedAnchorY(grid.ticks[k],
                                         grid.labels.verticalAlign),
                          LabelBaselineCorrection(grid))

\* C11 (amended): x is left, right or (left+right)/2 for align
\* left/right/center, plus the labels' x offset on a horizontal axis; y
\* before the baseline correction is always (top+bottom)/2, whatever
\* verticalAlign the labels configure; neither depends on the incoming
\* position
C11_LabelAnchoredInCellMiddle ==
    grid.enabled =>
        \A k \in GridTicks :
            grid.ticks[k].rendered =>
                /\ grid.ticks[k].x =
                      Add(ClaimedAnchorX(grid.ticks[k]),
                          IF AxisHoriz(grid) THEN grid.labels.x ELSE Num(0))
                /\ grid.ticks[k].y =
                      Add(ClaimedAnchorY(grid.ticks[k], "middle"),
                          LabelBaselineCorrection(grid))

C11_Witness ==
    /\ grid.enabled
    /\ grid.side = 3
    /\ grid.labels.align = "center"
    /\ grid.labels.verticalAlign = "bottom"
    /\ grid.tickWidth = 1
    /\ \A k \in GridTicks : grid.ticks[k].rendered
    /\ IsFinite(grid.ticks[1].x)
    /\ Lt(grid.ticks[1].top, grid.ticks[1].y)
    /\ Lt(grid.ticks[1].y, grid.ticks[1].bottom)

----------------------------------------------------------------------------
(* Specification of isOuterAxis over the axes of one collection *)

\* side 3 is left, side 1 is right
PlainAxis(side, isInternal) ==
    [side |-> side, isInternal |-> isInternal,
     columns |-> [has |-> FALSE, n |-> 0]]

\* an axis whose grid options declare n + 1 columns: it owns n sub-columns
ColumnsAxis(side, n) ==
    [side |-> side, isInternal |-> FALSE, columns |-> [has |-> TRUE, n |-> n]]

AxisKinds ==
    {PlainAxis(3, FALSE), PlainAxis(1, FALSE), PlainAxis(3, TRUE)}
        \cup {ColumnsAxis(3, n) : n \in 0..(MaxColumns - 1)}

AxisCollections == SeqsUpTo(AxisKinds, MaxAxes) \ {<<>>}

InitOuter ==
    /\ \E axes \in AxisCollections : grid = [axes |-> axes]
    /\ series = <<>>
    /\ out = NoCall
    /\ errors = 0
    /\ ind = NoIndicator

\* isOuterAxis is called on axis k or on its sub-column c
Axis_isOuterAxis ==
    /\ \E k \in 0..(Len(grid.axes) - 1) :
          \E c \in 0..grid.axes[k + 1].columns.n :
              out' = [kind |-> "isOuterAxis", k |-> k, c |-> c,
                      res |-> isOuterAxis(grid.axes, k, c)]
    /\ UNCHANGED <<series, errors, ind, grid>>

NextOuter == Axis_isOuterAxis

SpecOuter == InitOuter /\ [][NextOuter]_vars

OuterCalled == out.kind = "isOuterAxis"

\* the 0-based indices of the non-internal axes on the side of axis k
SideMates(axes, k) ==
    {j \in 0..(Len(axes) - 1) :
        axes[j + 1].side = axes[k + 1].side /\ ~axes[j + 1].isInternal}

\* axis k has the highest index among the non-internal axes of its side
HighestOnSide(axes, k) ==
    k \in SideMates(axes, k) /\ \A j \in SideMates(axes, k) : j <= k

ThreePlainLeftAxes ==
    (OuterCalled /\ grid.axes = <<PlainAxis(3, FALSE), PlainAxis(3, FALSE),
                                  PlainAxis(3, FALSE)>>)
        => (out.res = "true" <=> out.k = 2)

----------------------------------------------------------------------------
(* 3D renderer: projection of points and the signed area of a polygon *)

\* A rotation angle of the chart: its size in degrees with its cosine and
\* sine.  The angles of the model are those whose cosine and sine are
\* rational (Deg37 is the angle of the 3-4-5 triangle, 36.87 degrees).
Rot(deg, c, s) == [deg |-> deg, cos |-> c, sin |-> s]
Deg0 == Rot(Num(0), Num(1), Num(0))
Deg37 == Rot(<<3687, 100>>, <<4, 5>>, <<3, 5>>)
Deg90 == Rot(Num(90), Num(0), Num(1))
Deg180 == Rot(Num(180), Num(0 - 1), Num(0))
Deg270 == Rot(Num(270), Num(0), Num(0 - 1))

\* F applied to the values of its arguments, each evaluated once
Apply1(F(_), a) == CHOOSE r \in {F(x) : x \in {a}} : TRUE
Apply2(F(_, _), a, b) == CHOOSE r \in {F(x, y) : x \in {a}, y \in {b}} : TRUE
Apply3(F(_, _, _), a, b, c) ==
    CHOOSE r \in {F(x, y, z) : x \in {a}, y \in {b}, z \in {c}} : TRUE
Apply4(F(_, _, _, _), a, b, c, d) ==
    CHOOSE r \in {F(x, y, z, w) : x \in {a}, y \in {b}, z \in {c}, w \in {d}} :
        TRUE

\* the array holding the elements of a sequence given by a rule
ArrayOfValue(f) == SubSeq(f, 1, Len(f))
ArrayOf(f) == Apply1(ArrayOfValue, f)

Point3D(x, y, z) == [x |-> x, y |-> y, z |-> z]
Point2D(x, y) == [x |-> x, y |-> y]
P3(x, y, z) == Point3D(Num(x), Num(y), Num(z))

\* chart.options.chart.options3d and the plot box
Chart3d(alpha, beta, depth, viewDistance, inverted) ==
    [alpha |-> alpha, beta |-> beta, depth |-> Num(depth),
     viewDistance |-> Num(viewDistance), inverted |-> inverted,
     plotWidth |-> Num(8), plotHeight |-> Num(6),
     plotLeft |-> Num(1), plotTop |-> Num(1)]

\* rotate3D: rotation by beta around the y axis, then by alpha around x
rotate3DOf(x, y, z, angles) ==
    Point3D(Sub(Mul(angles.cosB, x), Mul(angles.sinB, z)),
            Sub(Add(Mul(Mul(Neg(angles.sinA), angles.sinB), x),
                    Mul(angles.cosA, y)),
                Mul(Mul(angles.cosB, angles.sinA), z)),
            Add(Add(Mul(Mul(angles.cosA, angles.sinB), x),
                    Mul(angles.sinA, y)),
                Mul(Mul(angles.cosA, angles.cosB), z)))

rotate3D(x, y, z, angles) == Apply4(rotate3DOf, x, y, z, angles)

\* perspective3D: central projection from the view distance
Projection(coordinate, origin, distance) ==
    IF Lt(Num(0), distance) /\ Lt(distance, PosInf)
    THEN Div(distance, Add(Add(coordinate.z, origin.z), distance))
    ELSE Num(1)

Projected(coordinate, projection) ==
    Point2D(Mul(coordinate.x, projection), Mul(coordinate.y, projection))

perspective3D(coordinate, origin, distance) ==
    Apply2(Projected, coordinate, Projection(coordinate, origin, distance))

\* perspective of one point around the centre of the plot box
PerspectiveOfRotated(rotated, coordinate, origin, inverted) ==
    LET cx == Add(coordinate.x, origin.x)
        cy == Add(coordinate.y, origin.y)
        cz == Add(rotated.z, origin.z)
    IN  Point3D(IF inverted THEN cy ELSE cx, IF inverted THEN cx ELSE cy, cz)

PerspectiveOfPoint(rotated, origin, inverted) ==
    Apply4(PerspectiveOfRotated, rotated,
           perspective3D(rotated, origin, origin.vd), origin, inverted)

PerspectivePoint(point, origin, angles, inverted) ==
    Apply3(PerspectiveOfPoint,
           rotate3D(Sub(IF inverted THEN point.y ELSE point.x, origin.x),
                    Sub(IF inverted THEN point.x ELSE point.y, origin.y),
                    Sub(point.z, origin.z), angles),
           origin, inverted)

\* perspective(points, chart, insidePlotArea): the screen positions of the
\* points under the chart's rotation and view distance
PerspectiveOrigin(chart, insidePlotArea) ==
    LET ox == Div(chart.plotWidth, Num(2))
        oy == Div(chart.plotHeight, Num(2))
    IN  [x |-> IF insidePlotArea THEN ox ELSE Add(ox, chart.plotLeft),
         y |-> IF insidePlotArea THEN oy ELSE Add(oy, chart.plotTop),
         z |-> Div(chart.depth, Num(2)),
         vd |-> Mul(chart.depth, chart.viewDistance)]

PerspectiveAngles(chart, inverted) ==
    LET sgn == IF inverted THEN Num(0 - 1) ELSE Num(1)
    IN  [cosA |-> chart.alpha.cos,
         sinA |-> Mul(sgn, chart.alpha.sin),
         cosB |-> chart.beta.cos,
         sinB |-> Mul(sgn, chart.beta.sin)]

PerspectivePoints(points, origin, angles, inverted) ==
    ArrayOf([i \in 1..Len(points) |->
                PerspectivePoint(points[i], origin, angles, inverted)])

perspective(points, chart, insidePlotArea) ==
    LET inverted == IF insidePlotArea THEN chart.inverted ELSE FALSE
    IN  Apply4(PerspectivePoints, points,
               PerspectiveOrigin(chart, insidePlotArea),
               PerspectiveAngles(chart, inverted), inverted)

RECURSIVE ShapeAreaSum(_, _)
ShapeAreaSum(vertexes, i) ==
    IF i > Len(vertexes) THEN Num(0)
    ELSE LET j == (i % Len(vertexes)) + 1
         IN  Add(Sub(Mul(vertexes[i].x, vertexes[j].y),
                     Mul(vertexes[j].x, vertexes[i].y)),
                 ShapeAreaSum(vertexes, i + 1))

ShapeAreaOf(vertexes) == Div(ShapeAreaSum(vertexes, 1), Num(2))

\* H.shapeArea: the signed area of the polygon (shoelace formula)
shapeArea(vertexes) == Apply1(ShapeAreaOf, vertexes)

\* renderer.toLinePath: "M x y L x y ... Z"
toLinePath(points, closed) ==
    [points |-> ArrayOf([i \in 1..Len(points) |->
                            <<points[i].x, points[i].y>>]),
     closed |-> closed /\ Len(points) > 0]

----------------------------------------------------------------------------
(* 3D renderer: face3d *)

\* defined(v): neither undefined nor null
defined(v) == v # "undefined" /\ v # "null"

\* an attribute hash given to attr or animate
FaceHash(enabled, vertexes, insidePlotArea) ==
    [enabled |-> enabled, vertexes |-> vertexes,
     insidePlotArea |-> insidePlotArea]
NoVertexes == [given |-> "undefined", v |-> <<>>]
Vertexes(v) == [given |-> "given", v |-> v]

\* the hash names a field of the face
FaceHashNamesField(hash) ==
    \/ defined(hash.enabled)
    \/ defined(hash.vertexes.given)
    \/ defined(hash.insidePlotArea)

FaceVisibilityNonNegative(enabled, area) ==
    IF enabled /\ Le(Num(0), area) THEN "visible" ELSE "hidden"

\* visibility = (this.enabled && area > 0) ? 'visible' : 'hidden'
FaceVisibility(enabled, area) ==
    IF enabled /\ Lt(Num(0), area) THEN "visible" ELSE "hidden"

\* the element after face3d's attr(hash) or animate(params): both pick the
\* named fields, project the vertexes and set the path and the visibility
\* (animate sets the visibility at once and animates the path to its end)
FaceUpdate(elem, chart, hash) ==
    IF ~FaceHashNamesField(hash) THEN elem
    ELSE LET enabled == IF defined(hash.enabled)
                        THEN hash.enabled = "true" ELSE elem.enabled
             vertexes == IF defined(hash.vertexes.given)
                         THEN hash.vertexes.v ELSE elem.vertexes
             insidePlotArea == IF defined(hash.insidePlotArea)
                               THEN hash.insidePlotArea = "true"
                               ELSE elem.insidePlotArea
             vertexes2d == perspective(vertexes, chart, insidePlotArea)
             path == toLinePath(vertexes2d, TRUE)
             area == shapeArea(vertexes2d)
         IN  [enabled |-> enabled, vertexes |-> vertexes,
              insidePlotArea |-> insidePlotArea, d |-> path,
              visibility |-> FaceVisibility(enabled, area)]

\* the element face3d creates before it applies its arguments
NewFace ==
    [enabled |-> TRUE, vertexes |-> <<>>, insidePlotArea |-> FALSE,
     d |-> toLinePath(<<>>, TRUE), visibility |-> "unset"]

----------------------------------------------------------------------------
(* Specification SpecFace: one face3d element under attr and animate.      *)
(* ind is the element, grid the chart it is drawn in, series the hashes    *)
(* given so far (the creation arguments first), out the last call.         *)

MaxCalls == 3

CounterClockwise == <<P3(0, 0, 0), P3(4, 0, 0), P3(0, 3, 0)>>
Clockwise == <<P3(0, 3, 0), P3(4, 0, 0), P3(0, 0, 0)>>
Collinear == <<P3(0, 0, 0), P3(2, 2, 0), P3(4, 4, 2)>>

FaceHashes ==
    { FaceHash("undefined", NoVertexes, "undefined"),
      FaceHash("false", NoVertexes, "undefined"),
      FaceHash("true", NoVertexes, "null"),
      FaceHash("null", Vertexes(CounterClockwise), "undefined"),
      FaceHash("undefined", Vertexes(Clockwise), "undefined"),
      FaceHash("undefined", Vertexes(Collinear), "undefined"),
      FaceHash("undefined", Vertexes(<<>>), "undefined"),
      FaceHash("undefined", NoVertexes, "true"),
      FaceHash("false", Vertexes(CounterClockwise), "false") }

FaceCharts ==
    { Chart3d(Deg0, Deg0, 10, 0, FALSE),
      Chart3d(Deg0, Deg180, 10, 5, TRUE) }

InitFace ==
    \E chart \in FaceCharts, args \in FaceHashes :
        /\ grid = chart
        /\ ind = FaceUpdate(NewFace, chart, args)
        /\ series = <<args>>
        /\ out = [kind |-> "face3d", hash |-> args]
        /\ errors = 0

FaceCall(kind, hash) ==
    /\ Len(series) < MaxCalls
    /\ ind' = FaceUpdate(ind, grid, hash)
    /\ series' = Append(series, hash)
    /\ out' = [kind |-> kind, hash |-> hash]
    /\ UNCHANGED <<errors, grid>>

Face_attr == \E hash \in FaceHashes : FaceCall("attr", hash)

Face_animate == \E params \in FaceHashes : FaceCall("animate", params)

NextFace == Face_attr \/ Face_animate

SpecFace == InitFace /\ [][NextFace]_vars

\* the value most recently given for a field, from the calls made so far
RECURSIVE RecentEnabled(_, _)
RecentEnabled(calls, n) ==
    IF n = 0 THEN TRUE
    ELSE IF defined(calls[n].enabled) THEN calls[n].enabled = "true"
    ELSE RecentEnabled(calls, n - 1)

RECURSIVE RecentVertexes(_, _)
RecentVertexes(calls, n) ==
    IF n = 0 THEN <<>>
    ELSE IF defined(calls[n].vertexes.given) THEN calls[n].vertexes.v
    ELSE RecentVertexes(calls, n - 1)

RECURSIVE RecentInsidePlotArea(_, _)
RecentInsidePlotArea(calls, n) ==
    IF n = 0 THEN FALSE
    ELSE IF defined(calls[n].insidePlotArea)
         THEN calls[n].insidePlotArea = "true"
    ELSE RecentInsidePlotArea(calls, n - 1)

RecentArea ==
    shapeArea(perspective(RecentVertexes(series, Len(series)), grid,
                          RecentInsidePlotArea(series, Len(series))))

\* C13: after any sequence of attr / animate calls the face is 'visible'
\* exactly when the most recently given enabled is true and the projection
\* of the most recently given vertexes has a positive signed area; a face
\* of zero area is not visible.
C13_FaceVisibleIffEnabledAndPositiveArea ==
    /\ ind.visibility = "visible" <=>
           (RecentEnabled(series, Len(series)) /\ Lt(Num(0), RecentArea))
    /\ RecentArea = Num(0) => ind.visibility # "visible"

\* a face re-enabled by a call that names no vertexes shows with the
\* vertexes of an earlier call
C13_Witness ==
    /\ Len(series) = 3
    /\ series[2].enabled = "false"
    /\ series[3] = FaceHash("true", NoVertexes, "null")
    /\ ~defined(series[2].vertexes.given)
    /\ ind.visibility = "visible"

----------------------------------------------------------------------------
(* 3D renderer: cuboidPath *)

ShapeArgs(x, y, z, width, height, depth) ==
    [x |-> x, y |-> y, z |-> z, width |-> width, height |-> height,
     depth |-> depth, insidePlotArea |-> TRUE]

\* the 8 corners of the cube, indexed 0..7 as in the source
CuboidCorners(a) ==
    <<Point3D(a.x, a.y, a.z),
      Point3D(Add(a.x, a.width), a.y, a.z),
      Point3D(Add(a.x, a.width), Add(a.y, a.height), a.z),
      Point3D(a.x, Add(a.y, a.height), a.z),
      Point3D(a.x, Add(a.y, a.height), Add(a.z, a.depth)),
      Point3D(Add(a.x, a.width), Add(a.y, a.height), Add(a.z, a.depth)),
      Point3D(Add(a.x, a.width), a.y, Add(a.z, a.depth)),
      Point3D(a.x, a.y, Add(a.z, a.depth))>>

\* verticesIndex.map(mapPath)
MapPath(pArr, verticesIndex) ==
    ArrayOf([i \in 1..Len(verticesIndex) |-> pArr[verticesIndex[i] + 1]])

PickSecondFirst(path1, path2) ==
    IF Lt(shapeArea(path2), Num(0)) THEN <<path2, 1>>
    ELSE IF Lt(shapeArea(path1), Num(0)) THEN <<path1, 0>>
    ELSE <<(<<>>), 0 - 1>>

pickShapeSecondFirst(pArr, verticesIndex1, verticesIndex2) ==
    Apply2(PickSecondFirst, MapPath(pArr, verticesIndex1),
           MapPath(pArr, verticesIndex2))

PickFirst(path1, path2) ==
    IF Lt(shapeArea(path1), Num(0)) THEN <<path1, 0>>
    ELSE IF Lt(shapeArea(path2), Num(0)) THEN <<path2, 1>>
    ELSE <<(<<>>), 0 - 1>>

\* pickShape: <<path, 0>> for the first face, <<path, 1>> for the second,
\* <<[], -1>> when neither has a negative area
pickShape(pArr, verticesIndex1, verticesIndex2) ==
    Apply2(PickFirst, MapPath(pArr, verticesIndex1),
           MapPath(pArr, verticesIndex2))

CuboidFront == <<3, 2, 1, 0>>
CuboidBack == <<7, 6, 5, 4>>
CuboidTop == <<1, 6, 7, 0>>
CuboidBottom == <<4, 5, 2, 3>>
CuboidRight == <<1, 2, 5, 6>>
CuboidLeft == <<0, 7, 4, 3>>

incrementX == 10000
incrementY == 10
incrementZ == 100

\* the alpha range in which the y term of the z-index counts from the
\* bottom of the plot whatever face is on top
AlphaFromBottom(alpha) ==
    \/ Le(Num(0), alpha) /\ Le(alpha, Num(180))
    \/ Lt(alpha, Num(360)) /\ Lt(<<715, 2>>, alpha)

CuboidZIndexYTowardsTop(chart, shapeArgs, isTop) ==
    Mul(Num(incrementY), Add(Num(10), shapeArgs.y))

\* zIndex += incrementY * (!isTop || alpha in range ? plotHeight - y : 10 + y)
CuboidZIndexY(chart, shapeArgs, isTop) ==
    Mul(Num(incrementY),
        IF isTop = 0 \/ AlphaFromBottom(chart.alpha.deg)
        THEN Sub(chart.plotHeight, shapeArgs.y)
        ELSE Add(Num(10), shapeArgs.y))

CuboidZIndexX(shapeArgs, isRight) ==
    IF isRight = 1 THEN Mul(Num(incrementX), Sub(Num(1000), shapeArgs.x))
    ELSE IF isRight = 0 THEN Mul(Num(incrementX), shapeArgs.x)
    ELSE Num(0)

\* z weighted like y
CuboidZIndexZWeightOfY(shapeArgs, isFront) ==
    IF isFront = 1 THEN Mul(Num(incrementY), shapeArgs.z)
    ELSE IF isFront = 0 THEN Mul(Num(incrementY), Sub(Num(1000), shapeArgs.z))
    ELSE Num(0)

CuboidZIndexZ(shapeArgs, isFront) ==
    IF isFront = 1 THEN Mul(Num(incrementZ), shapeArgs.z)
    ELSE IF isFront = 0 THEN Mul(Num(incrementZ), Sub(Num(1000), shapeArgs.z))
    ELSE Num(0)

CuboidShapesOf(pArr) ==
    <<pickShape(pArr, CuboidFront, CuboidBack),
      pickShape(pArr, CuboidTop, CuboidBottom),
      pickShape(pArr, CuboidRight, CuboidLeft)>>

CuboidPathOfShapes(chart, shapeArgs, shapes) ==
    LET shape1 == shapes[1]
        shape2 == shapes[2]
        shape3 == shapes[3]
        zIndex == Add(Add(CuboidZIndexX(shapeArgs, shape3[2]),
                          CuboidZIndexY(chart, shapeArgs, shape2[2])),
                      CuboidZIndexZ(shapeArgs, shape1[2]))
    IN  [front |-> toLinePath(shape1[1], TRUE),
         top |-> toLinePath(shape2[1], TRUE),
         side |-> toLinePath(shape3[1], TRUE),
         zIndexes |-> [group |-> MathRound(zIndex)],
         isFront |-> shape1[2],
         isTop |-> shape2[2],
         isRight |-> shape3[2]]

\* cuboidPath(shapeArgs): the three faces turned to the viewer and the
\* z-index of the group (isRight is kept for the statements about it)
cuboidPath(chart, shapeArgs) ==
    Apply3(CuboidPathOfShapes, chart, shapeArgs,
           Apply1(CuboidShapesOf,
                  perspective(CuboidCorners(shapeArgs), chart,
                              shapeArgs.insidePlotArea)))

----------------------------------------------------------------------------
(* 3D renderer: the cuboid element *)

\* defined(v) for a number
definedNumber(a) == a # Undefined /\ a # Null

\* element3dMethods.initArgs: the parts get their paths, the group its
\* z-index
initArgs(paths) ==
    [front |-> paths.front, top |-> paths.top, side |-> paths.side,
     zIndex |-> paths.zIndexes.group]

\* singleSetterForParts('d', null, paths, verb): every part gets its path
\* (and the z-index 0 of a part); the group is not touched
singleSetterForParts(elem, paths) ==
    [elem EXCEPT !.front = paths.front, !.top = paths.top,
                 !.side = paths.side]

CuboidAttrTakesShape(args) == definedNumber(args.x)

\* cuboidMethods.attr(args), paths being renderer.cuboidPath(args)
cuboidAttr(elem, args, paths) ==
    IF CuboidAttrTakesShape(args)
    THEN singleSetterForParts(elem, paths)
    ELSE elem

CuboidAnimateTakesShape(args) == definedNumber(args.x) /\ definedNumber(args.y)

\* cuboidMethods.animate(args): the parts animate to their paths and the
\* group takes the z-index of the paths
cuboidAnimate(elem, args, paths) ==
    IF CuboidAnimateTakesShape(args)
    THEN [singleSetterForParts(elem, paths)
             EXCEPT !.zIndex = paths.zIndexes.group]
    ELSE elem

----------------------------------------------------------------------------
(* Specification SpecCuboid: one cuboid element under attr and animate.    *)
(* ind is the element, grid the chart, out the last call with the shape    *)
(* parameters last given and the ones given before them, each with the     *)
(* paths cuboidPath computed for them.  cuboidPath is a function of the    *)
(* chart and the shape parameters; series holds its value for each shape   *)
(* of the model under the chart of the behaviour, computed once.           *)

Box(x, y, z, w, h, d) == ShapeArgs(Num(x), y, Num(z), Num(w), Num(h), Num(d))

\* cuboids that differ in y alone (by whole pixels, half a pixel and a
\* 25th of a pixel), in x, in z and in size; the last hash gives no shape
CuboidArgs ==
    { Box(0, Num(0), 0, 2, 3, 1),
      Box(0, Num(1), 0, 2, 3, 1),
      Box(0, <<1, 2>>, 0, 2, 3, 1),
      Box(0, <<1, 25>>, 0, 2, 3, 1),
      Box(2, Num(0), 0, 2, 3, 1),
      Box(0, Num(0), 1, 2, 3, 1),
      Box(3, Num(2), 1, 1, 1, 2),
      ShapeArgs(Undefined, Undefined, Undefined, Undefined, Undefined,
                Undefined) }

CuboidCharts ==
    { Chart3d(Deg0, Deg0, 10, 0, FALSE),
      Chart3d(Deg0, Deg0, 10, 5, TRUE),
      Chart3d(Deg37, Deg37, 10, 0, FALSE),
      Chart3d(Deg180, Deg0, 10, 0, FALSE),
      Chart3d(Deg270, Deg37, 10, 0, FALSE) }

CuboidShapes == {a \in CuboidArgs : CuboidAttrTakesShape(a)}

\* renderer.cuboidPath(args) in the chart of the behaviour
PathsOf(args) == series[args]

InitCuboid ==
    \E chart \in CuboidCharts :
      \E paths \in {[a \in CuboidShapes |-> cuboidPath(chart, a)]} :
        \E args \in CuboidShapes :
        /\ grid = chart
        /\ series = paths
        /\ ind = initArgs(PathsOf(args))
        /\ out = [kind |-> "cuboid", last |-> "cuboid", args |-> args,
                  paths |-> PathsOf(args),
                  prevArgs |-> args, prevPaths |-> PathsOf(args)]
        /\ errors = 0

\* the record of a call: last is the call, kind the last call that took
\* shape parameters, which replace the ones last given
CuboidCalled(kind, args, takesShape) ==
    IF takesShape
    THEN [kind |-> kind, last |-> kind, args |-> args,
          paths |-> PathsOf(args),
          prevArgs |-> out.args, prevPaths |-> out.paths]
    ELSE [out EXCEPT !.last = kind]

Cuboid_attr ==
    \E args \in CuboidArgs :
        /\ ind' = cuboidAttr(ind, args, PathsOf(args))
        /\ out' = CuboidCalled("attr", args, CuboidAttrTakesShape(args))
        /\ UNCHANGED <<series, errors, grid>>

Cuboid_animate ==
    \E args \in CuboidArgs :
        /\ ind' = cuboidAnimate(ind, args, PathsOf(args))
        /\ out' = CuboidCalled("animate", args, CuboidAnimateTakesShape(args))
        /\ UNCHANGED <<series, errors, grid>>

NextCuboid == Cuboid_attr \/ Cuboid_animate

SpecCuboid == InitCuboid /\ [][NextCuboid]_vars

NoRotation == grid.alpha = Deg0 /\ grid.beta = Deg0

PositiveSize(a) ==
    Lt(Num(0), a.width) /\ Lt(Num(0), a.height) /\ Lt(Num(0), a.depth)

\* C14: for a cuboid of positive width, height and depth in a chart that is
\* not rotated, cuboidPath selects the front face and not the back one
\* (isFront = 0, the path through corners 3, 2, 1, 0); pickShape selects
\* one face at most, and the first one when both have a negative area.
C14_FrontFaceWithoutRotation ==
    /\ (NoRotation /\ PositiveSize(out.args)) =>
         LET pArr == perspective(CuboidCorners(out.args), grid,
                                 out.args.insidePlotArea)
         IN  /\ out.paths.isFront = 0
             /\ out.paths.front = toLinePath(MapPath(pArr, CuboidFront), TRUE)
             /\ ind.front = out.paths.front
    /\ LET pArr == perspective(CuboidCorners(out.args), grid,
                               out.args.insidePlotArea)
           both == pickShape(pArr, CuboidFront, CuboidFront)
       IN  Lt(shapeArea(MapPath(pArr, CuboidFront)), Num(0)) =>
               both = <<MapPath(pArr, CuboidFront), 0>>

C14_Witness ==
    /\ NoRotation
    /\ Lt(Num(0), grid.viewDistance)
    /\ out.kind = "attr"
    /\ out.args = Box(3, Num(2), 1, 1, 1, 2)
    /\ out.paths.isFront = 0

\* the shape parameters last given and the ones given before them differ
\* in y alone, and cuboidPath selected the same side and the same one of
\* front and back for both
StackedPair ==
    /\ out.prevArgs # out.args
    /\ [out.prevArgs EXCEPT !.y = out.args.y] = out.args
    /\ out.prevPaths.isRight = out.paths.isRight
    /\ out.prevPaths.isFront = out.paths.isFront

AlphaUpTo180 ==
    Le(Num(0), grid.alpha.deg) /\ Le(grid.alpha.deg, Num(180))

ZIndexDifference == Sub(out.paths.zIndexes.group, out.prevPaths.zIndexes.group)

YDifference == Sub(out.prevArgs.y, out.args.y)

\* C15 (as stated): two cuboids that share x, z, the side and the front /
\* back selection and differ only in y have strictly ordered group
\* z-indexes: with alpha in [0, 180] the one with the smaller y has the
\* larger z-index, by 10 per unit of y.
C15_StackOrderStrict ==
    (StackedPair /\ AlphaUpTo180) =>
        /\ Lt(out.args.y, out.prevArgs.y) =>
               Lt(out.prevPaths.zIndexes.group, out.paths.zIndexes.group)
        /\ ZIndexDifference = Mul(Num(incrementY), YDifference)

\* C15 (amended): the z-index is rounded to an integer, so the order is
\* weak in general (the rounded z-indexes differ from 10 per unit of y by
\* less than 1) and it is strict, by exactly 10 per unit of y, when the y
\* values differ by a multiple of a tenth.
C15_StackOrderRounded ==
    (StackedPair /\ AlphaUpTo180) =>
        LET exact == Mul(Num(incrementY), YDifference)
        IN  /\ Lt(out.args.y, out.prevArgs.y) =>
                   Le(out.prevPaths.zIndexes.group, out.paths.zIndexes.group)
            /\ Lt(Sub(exact, Num(1)), ZIndexDifference)
            /\ Lt(ZIndexDifference, Add(exact, Num(1)))
            /\ exact[2] = 1 => ZIndexDifference = exact

C15_Witness ==
    /\ StackedPair
    /\ AlphaUpTo180
    /\ grid.alpha = Deg37
    /\ out.args.y = Num(0)
    /\ out.prevArgs.y = <<1, 2>>
    /\ ZIndexDifference = Num(5)

\* C19: after any sequence of creation, attr and animate calls that give
\* shape parameters, the paths of front, top and side and the z-index of
\* the group are those cuboidPath computes for the parameters last given.
C19_ElementFollowsLastShape ==
    /\ ind.front = out.paths.front
    /\ ind.top = out.paths.top
    /\ ind.side = out.paths.side
    /\ ind.zIndex = out.paths.zIndexes.group

\* what holds: the paths follow every call, the z-index of the group the
\* creation and animate only
CuboidPathsFollowLastShape ==
    /\ ind.front = out.paths.front
    /\ ind.top = out.paths.top
    /\ ind.side = out.paths.side
    /\ out.kind \in {"cuboid", "animate"} =>
           ind.zIndex = out.paths.zIndexes.group

----------------------------------------------------------------------------
(* 3D renderer: the z-indexes of arc3dPath *)

\* Math.PI is one fixed number; the model takes 22/7 for it.  The angles
\* whose sine the model knows are the multiples of PI / 2.
PI == <<22, 7>>

\* q quarter turns: the angle q * PI / 2 with its sine
QuarterTurns(q) ==
    [rad |-> Mul(Num(q), Div(PI, Num(2))),
     sin |-> Num(CASE q % 4 = 0 -> 0 [] q % 4 = 1 -> 1
                  [] q % 4 = 2 -> 0 [] OTHER -> 0 - 1)]

\* Math.atan2(y, x) where it is a multiple of PI / 4: on the axes and on
\* the diagonals
atan2(y, x) ==
    LET e == Div(PI, Num(4))
        sy == Sign(y)
        sx == Sign(x)
        k == CASE sy = 0 /\ sx >= 0 -> 0
               [] sy = 0 /\ sx < 0 -> 4
               [] sx = 0 -> 2 * sy
               [] sx > 0 -> sy
               [] OTHER -> 3 * sy
    IN  Mul(Num(k), e)

MathAbs(a) == IF Sign(a) < 0 THEN Neg(a) ELSE ToNumber(a)

\* the largest integer not above a finite number
Floor(a) == a[1] \div a[2]

\* a % b of JavaScript for a >= 0 and b > 0
Remainder(a, b) == Sub(a, Mul(Num(Floor(Div(a, b))), b))

toZeroPIRangeUnfolded(angle) == Remainder(angle, Mul(Num(2), PI))

\* toZeroPIRange: the angle folded into 0 .. PI
toZeroPIRange(angle) ==
    LET a == Remainder(angle, Mul(Num(2), PI))
    IN  IF Lt(PI, a) THEN Sub(Mul(Num(2), PI), a) ELSE a

incPrecision == 100000

ArcArgs(start, end, alpha, beta, depth) ==
    [start |-> start, end |-> end, alpha |-> alpha, beta |-> beta,
     depth |-> depth]

\* the z-indexes arc3dPath returns for its five parts
arc3dPath(shapeArgs) ==
    LET start == shapeArgs.start
        end == Sub(shapeArgs.end, <<1, 100000>>)
        d == shapeArgs.depth
        dx == Mul(d, shapeArgs.beta.sin)
        dy == Mul(d, shapeArgs.alpha.sin)
        angleCorr == atan2(dy, Neg(dx))
        angleEnd == toZeroPIRange(MathAbs(Add(end, angleCorr)))
        angleStart == toZeroPIRange(MathAbs(Add(start, angleCorr)))
        angleMid == toZeroPIRange(
            MathAbs(Add(Div(Add(start, end), Num(2)), angleCorr)))
        a1 == Mul(angleMid, Num(incPrecision))
        a2 == Mul(angleStart, Num(incPrecision))
        a3 == Mul(angleEnd, Num(incPrecision))
    IN  [zTop |-> Add(Mul(PI, Num(incPrecision)), Num(1)),
         zOut |-> MathMax(a1, MathMax(a2, a3)),
         zInn |-> MathMax(a1, MathMax(a2, a3)),
         zSide1 |-> Mul(a3, <<99, 100>>),
         zSide2 |-> Mul(a2, <<99, 100>>)]

----------------------------------------------------------------------------
(* Specification SpecArc: arc3dPath applied to the shape of a sector.      *)
(* ind is the shape of the sector, out the call with its result.           *)

MaxEighths == 8

\* start and end angles: multiples of PI / 4 and angles between them
ArcAngles ==
    {Mul(Num(k), Div(PI, Num(4))) : k \in (0 - 2)..MaxEighths}
        \cup {Num(1), <<0 - 7, 2>>, Num(7)}

ArcRotations == {QuarterTurns(q) : q \in 0..3}

ArcDepths == {Num(0), Num(25)}

InitArc ==
    \E start \in ArcAngles, end \in ArcAngles, alpha \in ArcRotations,
       beta \in ArcRotations, depth \in ArcDepths :
        /\ ind = ArcArgs(start, end, alpha, beta, depth)
        /\ series = <<>>
        /\ out = NoCall
        /\ errors = 0
        /\ grid = NoGrid

Renderer_arc3dPath ==
    /\ out = NoCall
    /\ out' = [kind |-> "arc3dPath", args |-> ind, res |-> arc3dPath(ind)]
    /\ UNCHANGED <<series, errors, ind, grid>>

NextArc == Renderer_arc3dPath

SpecArc == InitArc /\ [][NextArc]_vars

ArcCalled == out.kind = "arc3dPath"

\* C16: the z-indexes of arc3dPath satisfy zTop > zOut, zOut = zInn,
\* zOut >= zSide1 and zOut >= zSide2 for every finite start, end, alpha,
\* beta and depth.
C16_ArcZIndexOrder ==
    ArcCalled =>
        /\ Lt(out.res.zOut, out.res.zTop)
        /\ StrictEq(out.res.zOut, out.res.zInn)
        /\ Le(out.res.zSide1, out.res.zOut)
        /\ Le(out.res.zSide2, out.res.zOut)

\* a sector whose end angle is the largest of the three: its side is
\* below the outer face by the factor 0.99 alone
C16_Witness ==
    /\ ArcCalled
    /\ out.args.depth = Num(25)
    /\ out.args.alpha = QuarterTurns(1)
    /\ Lt(Num(0), out.res.zSide1)
    /\ out.res.zSide1 = Mul(out.res.zOut, <<99, 100>>)
    /\ Lt(out.res.zSide2, out.res.zSide1)

----------------------------------------------------------------------------
(* Variwide series on a category axis *)

\* this.relZ and this.totalZ after the forEach over zData (reversed first
\* on a reversed axis): relZ[i] is the sum of the z values before i
RECURSIVE RelZLoop(_, _, _, _)
RelZLoop(z, i, relZ, totalZ) ==
    IF i > Len(z) THEN [relZ |-> relZ, totalZ |-> totalZ]
    ELSE RelZLoop(z, i + 1, Append(relZ, totalZ), Add(totalZ, z[i]))

Reverse(s) == [i \in 1..Len(s) |-> s[Len(s) + 1 - i]]

\* variwide.processData
processData(s) ==
    LET r == RelZLoop(IF s.reversed THEN Reverse(s.zData) ELSE s.zData,
                      1, <<>>, Num(0))
    IN  [s EXCEPT !.relZ = r.relZ, !.totalZ = r.totalZ, !.processed = TRUE]

\* pick(relZ[i], totalZ)
RelZOrTotal(s, i) ==
    IF definedNumber(At(s.relZ, i)) THEN At(s.relZ, i) ELSE s.totalZ

PostTranslateIndex(s, index) ==
    IF s.reversed THEN Len(s.relZ) - index ELSE index

PostTranslateGoRight(s) == IF s.reversed THEN 0 - 1 ELSE 1

\* variwide.postTranslate(index, x, point): the distorted position of x
\* and the slot of the category, whose width goes to point.crosshairWidth
postTranslate(s, index, x) ==
    LET i == PostTranslateIndex(s, index)
        goRight == PostTranslateGoRight(s)
        n == Num(Len(s.relZ))
        linearSlotLeft == Mul(Div(Num(i), n), s.len)
        linearSlotRight == Mul(Div(Num(i + goRight), n), s.len)
        slotLeft == Mul(Div(RelZOrTotal(s, i), s.totalZ), s.len)
        slotRight == Mul(Div(RelZOrTotal(s, i + goRight), s.totalZ), s.len)
        xInsideLinearSlot == Sub(x, linearSlotLeft)
    IN  [ret |-> Add(slotLeft,
                     Div(Mul(xInsideLinearSlot, Sub(slotRight, slotLeft)),
                         Sub(linearSlotRight, linearSlotLeft))),
         slotLeft |-> slotLeft, slotRight |-> slotRight,
         crosshairWidth |-> Sub(slotRight, slotLeft)]

\* column.translate without crisping, point padding and group padding 0:
\* the column of category index fills its slot of the undistorted axis,
\* slots counted from the far end on a reversed axis
ColumnShapeX(s, index) ==
    LET n == Len(s.zData)
        slot == IF s.reversed THEN n - 1 - index ELSE index
    IN  Mul(Div(Num(slot), Num(n)), s.len)

ColumnShapeWidth(s) == Div(s.len, Num(Len(s.zData)))

\* the point of category index after variwide.translate
VariwidePoint(s, index) ==
    LET x == ColumnShapeX(s, index)
        l == postTranslate(s, index, x)
        r == postTranslate(s, index, Add(x, ColumnShapeWidth(s)))
        crisp == Div(Num(s.borderWidth % 2), Num(2))
        left == IF s.crisp THEN Sub(MathRound(l.ret), crisp) ELSE l.ret
        right == IF s.crisp THEN Sub(MathRound(r.ret), crisp) ELSE r.ret
    IN  [x |-> left,
         width |-> MathMax(Sub(right, left), Num(1)),
         plotX |-> Div(Add(left, right), Num(2)),
         slotLeft |-> l.slotLeft, slotRight |-> l.slotRight,
         crosshairWidth |-> l.crosshairWidth]

\* variwide.translate
translate(s) ==
    [s EXCEPT !.points = [k \in 1..Len(s.zData) |-> VariwidePoint(s, k - 1)]]

----------------------------------------------------------------------------
(* Specification SpecVariwide: a variwide series on a category axis.       *)
(* series is the series with its axis (reversed, len), out the crosshair.  *)

MaxPoints == 3
MaxZ == 2

ZData == SeqsUpTo({Num(z) : z \in 1..MaxZ}, MaxPoints) \ {<<>>}

AxisLens == {Num(12), Num(7)}

NoCrosshair == [kind |-> "none", index |-> 0, strokeWidth |-> Undefined]

InitVariwide ==
    \E zData \in ZData, reversed \in BOOLEAN, len \in AxisLens,
       crisp \in BOOLEAN :
        /\ series = [zData |-> zData, reversed |-> reversed, len |-> len,
                     crisp |-> crisp, borderWidth |-> 1,
                     relZ |-> <<>>, totalZ |-> Num(0), processed |-> FALSE,
                     points |-> <<>>]
        /\ out = NoCrosshair
        /\ errors = 0
        /\ ind = NoIndicator
        /\ grid = NoGrid

Series_processData ==
    /\ series' = processData(series)
    /\ UNCHANGED <<out, errors, ind, grid>>

Series_translate ==
    /\ series.processed
    /\ series' = translate(series)
    /\ UNCHANGED <<out, errors, ind, grid>>

\* the afterDrawCrosshair handler: the crosshair of the point gets the width
\* of the point's category
Axis_afterDrawCrosshair ==
    \E k \in 1..Len(series.points) :
        /\ out' = [kind |-> "crosshair", index |-> k - 1,
                   strokeWidth |-> series.points[k].crosshairWidth]
        /\ UNCHANGED <<series, errors, ind, grid>>

NextVariwide == Series_processData \/ Series_translate \/ Axis_afterDrawCrosshair

SpecVariwide == InitVariwide /\ [][NextVariwide]_vars

Translated == Len(series.points) > 0

\* the points in the order of their slots along the axis
PointsAlongAxis ==
    IF series.reversed THEN Reverse(series.points) ELSE series.points

SlotStart(p) == IF series.reversed THEN p.slotRight ELSE p.slotLeft
SlotEnd(p) == IF series.reversed THEN p.slotLeft ELSE p.slotRight

\* the slots tile the axis: the first starts at 0, each ends where the next
\* starts, the last ends at len
SlotsTile ==
    LET ps == PointsAlongAxis
    IN  /\ SlotStart(ps[1]) = Num(0)
        /\ SlotEnd(ps[Len(ps)]) = series.len
        /\ \A k \in 1..(Len(ps) - 1) : SlotEnd(ps[k]) = SlotStart(ps[k + 1])

RECURSIVE SumCrosshairWidth(_, _)
SumCrosshairWidth(ps, k) ==
    IF k > Len(ps) THEN Num(0)
    ELSE Add(ps[k].crosshairWidth, SumCrosshairWidth(ps, k + 1))

ShareOfAxis(k) ==
    Mul(Div(series.zData[k], series.totalZ), series.len)

\* C17: on a category axis with positive z values, reversed or not, the
\* slots tile the axis and the slot widths stored as crosshairWidth are
\* each z / totalZ * len, not negative, and sum to the length of the axis;
\* the crosshair takes that width.
C17_SlotsTileAndWidthsSumToLen ==
    Translated =>
        /\ SlotsTile
        /\ \A k \in 1..Len(series.points) :
               /\ series.points[k].crosshairWidth = ShareOfAxis(k)
               /\ Le(Num(0), series.points[k].crosshairWidth)
        /\ SumCrosshairWidth(series.points, 1) = series.len
        /\ out.kind = "crosshair" => Le(Num(0), out.strokeWidth)

\* what holds: on an axis that is not reversed the widths are the shares
\* of the axis; on a reversed axis they are the negated shares
VariwideWidthsUpToSign ==
    Translated =>
        /\ SlotsTile
        /\ \A k \in 1..Len(series.points) :
               series.points[k].crosshairWidth =
                   IF series.reversed THEN Neg(ShareOfAxis(k))
                   ELSE ShareOfAxis(k)
        /\ SumCrosshairWidth(series.points, 1) =
               IF series.reversed THEN Neg(series.len) ELSE series.len

----------------------------------------------------------------------------
(* Grid axis: the extra line of the outermost axis *)

\* an axis of the chart before its first render: its side, the options
\* grid.enabled and lineWidth, whether the axis has its line element, and
\* the number of axisLineExtra elements it holds
NewAxis(side, enabled, lineWidth, axisLine) ==
    [side |-> side, isInternal |-> FALSE,
     columns |-> [has |-> FALSE, n |-> 0],
     enabled |-> enabled, lineWidth |-> lineWidth, axisLine |-> axisLine,
     axisLineExtra |-> 0]

\* axis.isOuterAxis() && axis.axisLine, then if (lineWidth)
DrawsExtraLine(axes, k) ==
    /\ isOuterAxis(axes, k, 0) = "true"
    /\ axes[k + 1].axisLine
    /\ axes[k + 1].lineWidth # 0

\* the afterRender handler of the axis at 0-based index k: an outer axis
\* with a line creates axisLineExtra if it has none and animates the one it
\* has otherwise; the axis has no columns to render
afterRender(axes, k) ==
    LET axis == axes[k + 1]
    IN  IF axis.enabled /\ DrawsExtraLine(axes, k) /\ axis.axisLineExtra = 0
        THEN [axes EXCEPT ![k + 1].axisLineExtra = 1]
        ELSE axes

\* erase(chart[coll], axis)
Erase(axes, k) ==
    [i \in 1..(Len(axes) - 1) |-> IF i <= k THEN axes[i] ELSE axes[i + 1]]

----------------------------------------------------------------------------
(* Specification SpecAxes: the axes of one collection are added, rendered  *)
(* and removed.  grid holds the collection, out the last operation.        *)

NewAxes ==
    { NewAxis(3, TRUE, 1, TRUE),
      NewAxis(3, TRUE, 0, TRUE),
      NewAxis(3, FALSE, 1, TRUE),
      NewAxis(1, TRUE, 1, TRUE),
      NewAxis(1, TRUE, 1, FALSE) }

InitAxes ==
    \E axis \in NewAxes :
        /\ grid = [axes |-> <<axis>>]
        /\ out = [kind |-> "addAxis", k |-> 0]
        /\ series = <<>>
        /\ errors = 0
        /\ ind = NoIndicator

Chart_addAxis ==
    \E axis \in NewAxes :
        /\ Len(grid.axes) < MaxAxes
        /\ grid' = [axes |-> Append(grid.axes, axis)]
        /\ out' = [kind |-> "addAxis", k |-> Len(grid.axes)]
        /\ UNCHANGED <<series, errors, ind>>

Axis_remove ==
    \E k \in 0..(Len(grid.axes) - 1) :
        /\ Len(grid.axes) > 1
        /\ grid' = [axes |-> Erase(grid.axes, k)]
        /\ out' = [kind |-> "remove", k |-> k]
        /\ UNCHANGED <<series, errors, ind>>

Axis_render ==
    \E k \in 0..(Len(grid.axes) - 1) :
        /\ grid' = [axes |-> afterRender(grid.axes, k)]
        /\ out' = [kind |-> "render", k |-> k]
        /\ UNCHANGED <<series, errors, ind>>

NextAxes == Chart_addAxis \/ Axis_remove \/ Axis_render

SpecAxes == InitAxes /\ [][NextAxes]_vars

\* the axis that has just been rendered
Rendered == grid.axes[out.k + 1]

\* C20: after every render of a grid-enabled axis, in any sequence of
\* renders and of axes added to or removed from its side, the axis carries
\* axisLineExtra exactly when it is the outermost axis of its side with an
\* axis line and a line width that is not zero; repeated renders reuse the
\* one element.
C20_ExtraLineIffOuter ==
    (out.kind = "render" /\ Rendered.enabled) =>
        /\ Rendered.axisLineExtra > 0 <=> DrawsExtraLine(grid.axes, out.k)
        /\ Rendered.axisLineExtra <= 1

\* what holds: an outer axis with a line carries the element after its
\* render, no axis ever holds more than one, and an axis whose grid is not
\* enabled never gets one
ExtraLineWhenOuter ==
    /\ (out.kind = "render" /\ Rendered.enabled) =>
           (DrawsExtraLine(grid.axes, out.k) => Rendered.axisLineExtra = 1)
    /\ \A i \in 1..Len(grid.axes) :
           /\ grid.axes[i].axisLineExtra <= 1
           /\ ~grid.axes[i].enabled => grid.axes[i].axisLineExtra = 0

(***************************************************************************)
(* GridAxis column sub-axes: onGridAxisAfterInit creates them and the      *)
(* handlers afterGetOffset, afterSetScale, afterSetChartSize, afterRender  *)
(* and destroy pass the parent's layout operations on to them.             *)
(* Axis 0 is the parent, axis c > 0 the column with columnIndex c.  The    *)
(* log `series` lists the calls <<operation, axis>> of the last operation. *)
(***************************************************************************)

NoColumnOptions == [defined |-> FALSE, entries |-> <<>>]

ColumnOptions(entries) == [defined |-> TRUE, entries |-> entries]

\* column option entry i of the list, asking for the axis type `type`
ColumnEntry(i, type) == [id |-> i, type |-> type]

ColumnEntryTypes == {"undefined", "datetime"}

ColumnEntryLists(n) ==
    {[i \in 1..n |-> ColumnEntry(i, t[i])] : t \in [1..n -> ColumnEntryTypes]}

GridUserOptions ==
    {[enabled |-> e, columns |-> c] :
        e \in BOOLEAN,
        c \in {NoColumnOptions}
              \cup {ColumnOptions(l) :
                        l \in UNION {ColumnEntryLists(n) : n \in 0..MaxColumns}}}

\* the options left by Axis.setOptions before the afterSetOptions event
GridAxisOf(userOptions, type) ==
    [userOptions |-> userOptions,
     options |-> [enabled |-> userOptions.enabled,
                  columns |-> userOptions.columns,
                  type |-> type, entry |-> 0],
     hasColumns |-> FALSE, columns |-> <<>>,
     isColumn |-> FALSE, columnIndex |-> 0 - 1]

\* onGridAxisAfterSetOptions: the last column entry goes to the parent
onGridAxisAfterSetOptions(axis) ==
    LET columns == axis.userOptions.columns
        n == Len(columns.entries)
    IN  IF axis.userOptions.enabled /\ columns.defined /\ n > 0
        THEN [axis EXCEPT !.options.entry = columns.entries[n].id,
                          !.options.type =
                              IF columns.entries[n].type = "undefined"
                              THEN @ ELSE columns.entries[n].type]
        ELSE axis

\* the column built in the loop of onGridAxisAfterInit at columnIndex:
\* merge(userOptions, columns[length - columnIndex - 1],
\* {linkedTo: 0, type: 'category'}), grid.columns deleted; the column's own
\* afterSetOptions and afterInit find no columns and leave it alone
NewColumn(axis, columnIndex) ==
    LET entries == axis.options.columns.entries
        entry == entries[(Len(entries) - columnIndex - 1) + 1]
        columnOptions == [enabled |-> axis.userOptions.enabled,
                          columns |-> NoColumnOptions]
    IN  [userOptions |-> columnOptions,
         options |-> [enabled |-> columnOptions.enabled,
                      columns |-> NoColumnOptions,
                      type |-> "category", entry |-> entry.id],
         hasColumns |-> FALSE, columns |-> <<>>,
         isColumn |-> TRUE, columnIndex |-> columnIndex]

\* the loop `while (++columnIndex < gridOptions.columns.length)`: the new
\* axis registers itself with the chart (Axis.init) and is erased from
\* chart.axes and chart[axis.coll] before it is pushed to axis.columns
RECURSIVE ColumnLoop(_, _, _)
ColumnLoop(axis, chart, columnIndex) ==
    IF columnIndex + 1 < Len(axis.options.columns.entries)
    THEN LET c == columnIndex + 1
             registered == [axes |-> Append(chart.axes, c),
                            coll |-> Append(chart.coll, c)]
             erased == [axes |-> SelectSeq(registered.axes, LAMBDA a : a # c),
                        coll |-> SelectSeq(registered.coll, LAMBDA a : a # c)]
         IN  ColumnLoop([axis EXCEPT !.columns = Append(@, NewColumn(axis, c))],
                        erased, c)
    ELSE [axis |-> axis, chart |-> chart]

\* onGridAxisAfterInit: the columns exist whenever grid.columns is given
onGridAxisAfterInit(axis, chart) ==
    IF axis.options.columns.defined
    THEN ColumnLoop([axis EXCEPT !.hasColumns = TRUE, !.columnIndex = 0],
                    chart, 0)
    ELSE [axis |-> axis, chart |-> chart]

\* (axis.columns || []).forEach: one call of each operation per column
RECURSIVE ForEachColumn(_, _, _)
ForEachColumn(columns, ops, i) ==
    IF i > Len(columns) THEN <<>>
    ELSE [k \in 1..Len(ops) |-> <<ops[k], columns[i].columnIndex>>]
            \o ForEachColumn(columns, ops, i + 1)

ColumnCalls(axis, ops) ==
    IF axis.hasColumns THEN ForEachColumn(axis.columns, ops, 1) ELSE <<>>

onGridAxisAfterGetOffset(axis) == ColumnCalls(axis, <<"getOffset">>)

onGridAxisAfterSetScale(axis) == ColumnCalls(axis, <<"setScale">>)

onGridAxisAfterSetChartSize(axis) ==
    ColumnCalls(axis, <<"setAxisSize", "setAxisTranslation">>)

onGridAxisDestroy(axis) == ColumnCalls(axis, <<"destroy">>)

\* the afterRender handler renders the columns inside
\* `if (gridOptions.enabled === true)`
onGridAxisAfterRender(axis) ==
    IF axis.options.enabled THEN ColumnCalls(axis, <<"render">>) ELSE <<>>

(***************************************************************************)
(* SpecColumns: an axis is initialised from its user options and then      *)
(* laid out, rendered and destroyed.                                       *)
(***************************************************************************)

MaxLayoutOps == 3

InitColumns ==
    \E userOptions \in GridUserOptions, type \in {"linear", "datetime"} :
        /\ grid = [axis |-> GridAxisOf(userOptions, type),
                   chart |-> [axes |-> <<>>, coll |-> <<>>],
                   initialised |-> FALSE, destroyed |-> FALSE]
        /\ series = <<>>
        /\ out = [kind |-> "new"]
        /\ errors = 0
        /\ ind = NoIndicator

\* new Axis(chart, userOptions): Axis.init registers the axis, fires
\* afterSetOptions from setOptions and afterInit at its end
GridAxis_init ==
    /\ ~grid.initialised
    /\ LET registered == [axes |-> Append(grid.chart.axes, 0),
                          coll |-> Append(grid.chart.coll, 0)]
           r == onGridAxisAfterInit(onGridAxisAfterSetOptions(grid.axis),
                                    registered)
       IN  grid' = [grid EXCEPT !.axis = r.axis, !.chart = r.chart,
                                !.initialised = TRUE]
    /\ series' = <<>>
    /\ out' = [kind |-> "init"]
    /\ UNCHANGED <<errors, ind>>

LayoutEnabled ==
    grid.initialised /\ ~grid.destroyed /\ errors < MaxLayoutOps

GridAxis_getOffset ==
    /\ LayoutEnabled
    /\ series' = <<(<<"getOffset", 0>>)>> \o onGridAxisAfterGetOffset(grid.axis)
    /\ out' = [kind |-> "getOffset"]
    /\ errors' = errors + 1
    /\ UNCHANGED <<grid, ind>>

GridAxis_setScale ==
    /\ LayoutEnabled
    /\ series' = <<(<<"setScale", 0>>)>> \o onGridAxisAfterSetScale(grid.axis)
    /\ out' = [kind |-> "setScale"]
    /\ errors' = errors + 1
    /\ UNCHANGED <<grid, ind>>

\* Chart.setChartSize sizes every axis of chart.axes, then fires
\* afterSetChartSize
GridChart_setChartSize ==
    /\ LayoutEnabled
    /\ series' = <<(<<"setAxisSize", 0>>), (<<"setAxisTranslation", 0>>)>>
                    \o onGridAxisAfterSetChartSize(grid.axis)
    /\ out' = [kind |-> "setChartSize"]
    /\ errors' = errors + 1
    /\ UNCHANGED <<grid, ind>>

GridAxis_render ==
    /\ LayoutEnabled
    /\ series' = <<(<<"render", 0>>)>> \o onGridAxisAfterRender(grid.axis)
    /\ out' = [kind |-> "render"]
    /\ errors' = errors + 1
    /\ UNCHANGED <<grid, ind>>

GridAxis_destroy ==
    /\ LayoutEnabled
    /\ series' = <<(<<"destroy", 0>>)>> \o onGridAxisDestroy(grid.axis)
    /\ out' = [kind |-> "destroy"]
    /\ grid' = [grid EXCEPT !.destroyed = TRUE]
    /\ errors' = errors + 1
    /\ UNCHANGED ind

NextColumns ==
    \/ GridAxis_init
    \/ GridAxis_getOffset
    \/ GridAxis_setScale
    \/ GridChart_setChartSize
    \/ GridAxis_render
    \/ GridAxis_destroy

SpecColumns == InitColumns /\ [][NextColumns]_vars

\* the operations of the last step
LayoutOps ==
    IF out.kind = "setChartSize" THEN {"setAxisSize", "setAxisTranslation"}
    ELSE IF out.kind \in {"getOffset", "setScale", "render", "destroy"}
    THEN {out.kind}
    ELSE {}

\* the axes on which op ran in the last step, in the order of the calls
AxesCalled(op) ==
    LET calls == SelectSeq(series, LAMBDA c : c[1] = op)
    IN  [i \in 1..Len(calls) |-> calls[i][2]]

OwnsColumns == grid.axis.hasColumns /\ Len(grid.axis.columns) > 0

\* the parent first, then column 1, column 2, ...
ParentThenColumns(op) ==
    AxesCalled(op) = [i \in 1..(Len(grid.axis.columns) + 1) |-> i - 1]

\* C21: every one of getOffset, setScale, setAxisSize with
\* setAxisTranslation, render and destroy that runs on a parent owning
\* columns also runs on every column, once per column and in increasing
\* column-index order, whether or not the parent's grid is enabled
C21_ColumnsFollowParent ==
    OwnsColumns => \A op \in LayoutOps : ParentThenColumns(op)

\* what the code does: render reaches the columns only under an enabled grid
ColumnsFollowParentExceptDisabledRender ==
    OwnsColumns =>
        \A op \in LayoutOps :
            IF op = "render" /\ ~grid.axis.options.enabled
            THEN AxesCalled(op) = <<0>>
            ELSE ParentThenColumns(op)

\* the column of axis.columns with columnIndex c
ColumnAt(c) == grid.axis.columns[c]

DeclaredColumns == Len(grid.axis.userOptions.columns.entries)

ColumnsCreated ==
    /\ grid.axis.hasColumns
    /\ Len(grid.axis.columns) = DeclaredColumns - 1
    /\ \A c \in 1..(DeclaredColumns - 1) :
        /\ ColumnAt(c).columnIndex = c
        /\ ColumnAt(c).isColumn
        /\ ColumnAt(c).options.type = "category"
        /\ ~ColumnAt(c).hasColumns
        /\ \A i \in 1..Len(grid.chart.axes) : grid.chart.axes[i] # c
        /\ \A i \in 1..Len(grid.chart.coll) : grid.chart.coll[i] # c
        \* entry N-1-c counted from 0
        /\ ColumnAt(c).options.entry = (DeclaredColumns - 1 - c) + 1

\* C22: initialising an axis whose grid options declare N >= 1 columns
\* leaves N-1 columns with columnIndex 1..N-1, each a category axis
\* outside chart.axes and the axis collection and without columns of its
\* own; the parent received the last option entry and column c entry N-1-c
C22_ColumnsAfterInit ==
    (grid.initialised /\ grid.axis.userOptions.columns.defined
        /\ DeclaredColumns >= 1)
    => (ColumnsCreated /\ grid.axis.options.entry = DeclaredColumns)

\* what the code does: the parent takes its entry only under an enabled grid
ColumnsAfterInitParentEntryWhenEnabled ==
    (grid.initialised /\ grid.axis.userOptions.columns.defined
        /\ DeclaredColumns >= 1)
    => /\ ColumnsCreated
       /\ grid.axis.options.entry =
            IF grid.axis.userOptions.enabled THEN DeclaredColumns ELSE 0

(***************************************************************************)
(* SVGRenderer.prototype.polyhedron: a group holding one face3d element    *)
(* per entry of the last faces list.  Face elements are numbered in the    *)
(* order of their creation; `series` holds, for every element created so   *)
(* far, the hash it was last given and how often it has been destroyed.    *)
(***************************************************************************)

NoFaces == [defined |-> FALSE, list |-> <<>>]

FacesList(list) == [defined |-> TRUE, list |-> list]

\* while (result.faces.length > n) result.faces.pop().destroy()
RECURSIVE PopFaces(_, _)
PopFaces(poly, n) ==
    IF Len(poly.faces) > n
    THEN LET last == poly.faces[Len(poly.faces)]
         IN  PopFaces([poly EXCEPT
                          !.faces = SubSeq(@, 1, Len(@) - 1),
                          !.elements[last].destroyed = @ + 1], n)
    ELSE poly

\* while (result.faces.length < n)
\*     result.faces.push(renderer.face3d().add(result))
RECURSIVE PushFaces(_, _)
PushFaces(poly, n) ==
    IF Len(poly.faces) < n
    THEN PushFaces([poly EXCEPT
                       !.faces = Append(@, Len(poly.elements) + 1),
                       !.elements = Append(@, [hash |-> 0, destroyed |-> 0,
                                               animated |-> FALSE])], n)
    ELSE poly

\* a polyhedron that drops its first faces instead of its last ones
ResizeFacesFromFront(poly, n) ==
    IF Len(poly.faces) > n
    THEN LET drop == Len(poly.faces) - n
         IN  [poly EXCEPT
                 !.faces = SubSeq(@, drop + 1, Len(@)),
                 !.elements = [e \in 1..Len(@) |->
                     IF \E i \in 1..drop : poly.faces[i] = e
                     THEN [@[e] EXCEPT !.destroyed = @ + 1]
                     ELSE @[e]]]
    ELSE PushFaces(poly, n)

\* the two while loops of attr and animate
ResizeFaces(poly, n) == PushFaces(PopFaces(poly, n), n)

\* for (i < faces.length) result.faces[i].attr / animate (faces[i], ...)
RECURSIVE UpdateFaces(_, _, _, _)
UpdateFaces(poly, list, animated, i) ==
    IF i > Len(list) THEN poly
    ELSE UpdateFaces([poly EXCEPT
                         !.elements[poly.faces[i]].hash = list[i],
                         !.elements[poly.faces[i]].animated = animated],
                     list, animated, i + 1)

\* result.attr(hash): `typeof hash === 'object' && defined(hash.faces)`
polyhedronAttr(poly, hash) ==
    IF hash.defined
    THEN UpdateFaces(ResizeFaces(poly, Len(hash.list)), hash.list, FALSE, 1)
    ELSE poly

\* result.animate(params): `params && params.faces`
polyhedronAnimate(poly, params) ==
    IF params.defined
    THEN UpdateFaces(ResizeFaces(poly, Len(params.list)), params.list, TRUE, 1)
    ELSE poly

\* result.destroy: every held face is destroyed, then the group
RECURSIVE DestroyFaces(_, _)
DestroyFaces(poly, i) ==
    IF i > Len(poly.faces) THEN poly
    ELSE DestroyFaces([poly EXCEPT
                          !.elements[poly.faces[i]].destroyed = @ + 1], i + 1)

polyhedronDestroy(poly) == [DestroyFaces(poly, 1) EXCEPT !.destroyed = TRUE]

\* renderer.polyhedron(args): an empty group, then result.attr(args)
polyhedron(args) ==
    polyhedronAttr([faces |-> <<>>, elements |-> <<>>, destroyed |-> FALSE],
                   args)

(***************************************************************************)
(* SpecPolyhedron: attr and animate calls with and without a faces list,   *)
(* then destroy.                                                           *)
(***************************************************************************)

MaxFaces == 3
MaxPolyCalls == 2

\* the hashes of the faces are told apart by their fill
FaceFills == {1, 2}

FacesArgs ==
    {NoFaces} \cup {FacesList(l) : l \in SeqsUpTo(FaceFills, MaxFaces)}

InitPolyhedron ==
    \E args \in FacesArgs :
        /\ grid = polyhedron(args)
        /\ out = [kind |-> "polyhedron", args |-> args,
                  prevFaces |-> <<>>, last |-> args]
        /\ errors = 0
        /\ series = <<>>
        /\ ind = NoIndicator

Polyhedron_attr ==
    \E hash \in FacesArgs :
        /\ ~grid.destroyed
        /\ errors < MaxPolyCalls
        /\ grid' = polyhedronAttr(grid, hash)
        /\ out' = [kind |-> "attr", args |-> hash, prevFaces |-> grid.faces,
                   last |-> IF hash.defined THEN hash ELSE out.last]
        /\ errors' = errors + 1
        /\ UNCHANGED <<series, ind>>

Polyhedron_animate ==
    \E params \in FacesArgs :
        /\ ~grid.destroyed
        /\ errors < MaxPolyCalls
        /\ grid' = polyhedronAnimate(grid, params)
        /\ out' = [kind |-> "animate", args |-> params,
                   prevFaces |-> grid.faces,
                   last |-> IF params.defined THEN params ELSE out.last]
        /\ errors' = errors + 1
        /\ UNCHANGED <<series, ind>>

Polyhedron_destroy ==
    /\ ~grid.destroyed
    /\ grid' = polyhedronDestroy(grid)
    /\ out' = [out EXCEPT !.kind = "destroy", !.args = NoFaces,
                          !.prevFaces = grid.faces]
    /\ UNCHANGED <<series, errors, ind>>

NextPolyhedron == Polyhedron_attr \/ Polyhedron_animate \/ Polyhedron_destroy

SpecPolyhedron == InitPolyhedron /\ [][NextPolyhedron]_vars

Held(e) == \E i \in 1..Len(grid.faces) : grid.faces[i] = e

FacesDistinct ==
    \A i, j \in 1..Len(grid.faces) : grid.faces[i] = grid.faces[j] => i = j

\* the last call was an attr or animate call carrying a faces list
FacesGiven == out.kind \in {"attr", "animate"} /\ out.args.defined

\* C23: after attr and animate calls that carry a faces list the polyhedron
\* holds as many face elements as the most recent list has entries; the
\* elements below min(old length, new length) are the same objects as
\* before; removed faces are destroyed exactly once and no longer held; and
\* destroying the polyhedron destroys every face it still holds
C23_FacesFollowLastList ==
    /\ FacesDistinct
    /\ out.last.defined => Len(grid.faces) = Len(out.last.list)
    /\ FacesGiven =>
        /\ \A i \in 1..Len(out.prevFaces) :
            IF i <= Len(out.args.list)
            THEN grid.faces[i] = out.prevFaces[i]
            ELSE /\ ~Held(out.prevFaces[i])
                 /\ grid.elements[out.prevFaces[i]].destroyed = 1
        /\ \A i \in 1..Len(grid.faces) :
            /\ grid.elements[grid.faces[i]].hash = out.args.list[i]
            /\ grid.elements[grid.faces[i]].animated = (out.kind = "animate")
    /\ \A e \in 1..Len(grid.elements) :
        grid.elements[e].destroyed =
            IF Held(e) /\ ~grid.destroyed THEN 0 ELSE 1

\* a list shorter than the faces held, then a longer one, then destroy
C23_Witness ==
    /\ grid.destroyed
    /\ Len(grid.faces) = 3
    /\ Len(grid.elements) = 5
    /\ \E e \in 1..Len(grid.elements) : ~Held(e)

(***************************************************************************)
(* GridAxis trimTicks handler: the first and the last tick of a linked or  *)
(* horizontal grid axis are moved to the edge of the range.                *)
(***************************************************************************)

\* the truthiness of a number: 0, NaN, undefined and null are falsy
ToBoolean(a) == ~(a = Undefined \/ a = Null \/ IsNaN(a) \/ a = Num(0))

\* a || b
OrElse(a, b) == IF ToBoolean(a) THEN a ELSE b

NoLinkedParent == [defined |-> FALSE, min |-> Undefined, max |-> Undefined]

LinkedParent(min, max) == [defined |-> TRUE, min |-> min, max |-> max]

\* axis.linkedParent && axis.linkedParent.min
LinkedMin(axis) ==
    IF axis.linkedParent.defined THEN axis.linkedParent.min ELSE Undefined

LinkedMax(axis) ==
    IF axis.linkedParent.defined THEN axis.linkedParent.max ELSE Undefined

\* the range if a zero edge of the linked parent counted as an edge
TrimRangeOfParent(axis) ==
    [min |-> IF LinkedMin(axis) = Undefined THEN axis.min ELSE LinkedMin(axis),
     max |-> IF LinkedMax(axis) = Undefined THEN axis.max ELSE LinkedMax(axis)]

\* min = linkedMin || axis.min, max = linkedMax || axis.max
TrimRange(axis) ==
    [min |-> OrElse(LinkedMin(axis), axis.min),
     max |-> OrElse(LinkedMax(axis), axis.max)]

\* the handler of the trimTicks event: the tick positions it leaves
trimTicks(axis) ==
    LET tickPositions == axis.tickPositions
        n == Len(tickPositions)
        firstPos == At(tickPositions, 0)
        lastPos == At(tickPositions, n - 1)
        min == TrimRange(axis).min
        max == TrimRange(axis).max
        endMoreThanMin ==
            Lt(firstPos, min) /\ Lt(min, Add(firstPos, axis.tickInterval))
        startLessThanMax ==
            Lt(max, lastPos) /\ Lt(Sub(lastPos, axis.tickInterval), max)
        first == IF endMoreThanMin /\ ~axis.startOnTick
                 THEN [tickPositions EXCEPT ![1] = min]
                 ELSE tickPositions
        last == IF startLessThanMax /\ ~axis.endOnTick
                THEN [first EXCEPT ![n] = max]
                ELSE first
    IN  IF axis.enabled /\ ~axis.categories /\ (axis.horiz \/ axis.isLinked)
        THEN last
        ELSE tickPositions

(***************************************************************************)
(* SpecTrim: the axis is set up with its ticks and its range, then the     *)
(* trimTicks event fires.                                                  *)
(***************************************************************************)

MaxTrimTicks == 3

\* n ticks from start at the distance of the tick interval
RegularTicks(start, tickInterval, n) ==
    [i \in 1..n |-> Num(start + (i - 1) * tickInterval)]

\* the ranges of the axis and of its linked parent, min < max
TrimRanges ==
    {r \in [min : {Num(0 - 1), Num(0), Num(1)},
            max : {Num(0), Num(2), Num(3)}] : Lt(r.min, r.max)}

InitTrim ==
    \E start \in {0 - 2, 0 - 1, 0}, tickInterval \in {1, 2},
       n \in 1..MaxTrimTicks, range \in TrimRanges,
       enabled \in BOOLEAN, categories \in BOOLEAN, horiz \in BOOLEAN,
       startOnTick \in BOOLEAN, endOnTick \in BOOLEAN,
       parent \in {NoLinkedParent}
                  \cup {LinkedParent(r.min, r.max) : r \in TrimRanges} :
        /\ grid = [enabled |-> enabled, categories |-> categories,
                   horiz |-> horiz, isLinked |-> parent.defined,
                   linkedParent |-> parent,
                   startOnTick |-> startOnTick, endOnTick |-> endOnTick,
                   tickPositions |-> RegularTicks(start, tickInterval, n),
                   tickInterval |-> Num(tickInterval),
                   min |-> range.min, max |-> range.max]
        /\ out = [kind |-> "setTickPositions", before |-> <<>>]
        /\ series = <<>>
        /\ errors = 0
        /\ ind = NoIndicator

Axis_trimTicks ==
    /\ out.kind # "trimTicks"
    /\ grid' = [grid EXCEPT !.tickPositions = trimTicks(grid)]
    /\ out' = [kind |-> "trimTicks", before |-> grid.tickPositions]
    /\ UNCHANGED <<series, errors, ind>>

NextTrim == Axis_trimTicks

SpecTrim == InitTrim /\ [][NextTrim]_vars

\* the axis the handler acts on, with a linked parent, after the event
TrimmedLinkedGridAxis ==
    /\ out.kind = "trimTicks"
    /\ grid.enabled /\ ~grid.categories /\ (grid.horiz \/ grid.isLinked)
    /\ grid.linkedParent.defined

FirstWithinInterval(range) ==
    /\ ~grid.startOnTick
    /\ Lt(out.before[1], range.min)
    /\ Lt(range.min, Add(out.before[1], grid.tickInterval))

LastWithinInterval(range) ==
    /\ ~grid.endOnTick
    /\ Lt(range.max, out.before[Len(out.before)])
    /\ Lt(Sub(out.before[Len(out.before)], grid.tickInterval), range.max)

Increasing(positions) ==
    \A i \in 1..(Len(positions) - 1) : Lt(positions[i], positions[i + 1])

\* the first tick is at range.min and the last at range.max when they were
\* within one interval outside, every other tick is where it was
TrimmedTo(range) ==
    LET n == Len(out.before)
    IN  /\ Len(grid.tickPositions) = n
        /\ FirstWithinInterval(range) => grid.tickPositions[1] = range.min
        /\ LastWithinInterval(range) => grid.tickPositions[n] = range.max
        /\ \A i \in 1..n :
            (~(i = 1 /\ FirstWithinInterval(range))
                /\ ~(i = n /\ LastWithinInterval(range)))
            => grid.tickPositions[i] = out.before[i]

\* C24: on a grid-enabled, non-category axis that is horizontal or linked,
\* after trimTicks the first tick equals the linked parent's min if
\* startOnTick is off and the tick was below that min by less than one tick
\* interval, for every value of the min including 0; the last tick equals
\* the linked parent's max likewise; every other position is unchanged and
\* the positions stay in increasing order
C24_TicksClampedToLinkedRange ==
    TrimmedLinkedGridAxis =>
        /\ TrimmedTo(TrimRangeOfParent(grid))
        /\ Increasing(grid.tickPositions)

\* what the code does: an edge of the linked parent at 0 is replaced by the
\* axis' own edge
TicksClampedToTruthyRange ==
    TrimmedLinkedGridAxis => TrimmedTo(TrimRange(grid))

(***************************************************************************)
(* SpecPriority: the group z-indexes of two cuboids of one chart that      *)
(* differ in x, y and z.                                                   *)
(***************************************************************************)

\* the upper end of the x and z ranges: the literal of `1000 - x`
MaxCoordinate == 1000

\* a depth more than 100 times the distance of two neighbouring columns
FarZ == 120

PriorityArgs ==
    {ShapeArgs(x, y, z, Num(2), Num(3), Num(1)) :
        x \in {Num(0), Num(1), Num(2)},
        y \in {Num(0), Num(6)},
        z \in {Num(0), <<1, 2>>, Num(FarZ)}}

PriorityCharts ==
    { Chart3d(Deg37, Deg37, 10, 0, FALSE),
      Chart3d(Deg0, Deg0, 10, 5, FALSE),
      Chart3d(Deg270, Deg37, 10, 0, FALSE) }

NoPair == [kind |-> "none"]

InitPriority ==
    \E chart \in PriorityCharts :
      \E paths \in {[a \in PriorityArgs |-> cuboidPath(chart, a)]} :
        /\ grid = chart
        /\ series = paths
        /\ out = NoPair
        /\ errors = 0
        /\ ind = NoIndicator

\* the renderer builds two cuboids of the chart
Renderer_cuboidPath ==
    \E a \in PriorityArgs, b \in PriorityArgs :
        /\ out = NoPair
        /\ out' = [kind |-> "cuboidPath", a |-> a, b |-> b,
                   pathA |-> series[a], pathB |-> series[b]]
        /\ UNCHANGED <<series, errors, ind, grid>>

NextPriority == Renderer_cuboidPath

SpecPriority == InitPriority /\ [][NextPriority]_vars

\* two cuboids with the same face selection, inside the ranges
PriorityPair ==
    /\ out.kind = "cuboidPath"
    /\ out.pathA.isFront = out.pathB.isFront
    /\ out.pathA.isTop = out.pathB.isTop
    /\ out.pathA.isRight = out.pathB.isRight
    /\ \A c \in {out.a, out.b} :
        /\ Le(Num(0), c.x) /\ Le(c.x, Num(MaxCoordinate))
        /\ Le(Num(0), c.z) /\ Le(c.z, Num(MaxCoordinate))
        /\ Le(Num(0), c.y) /\ Le(c.y, grid.plotHeight)

\* the differences of the three terms and of the group z-index, a minus b
XTermDifference ==
    Sub(CuboidZIndexX(out.a, out.pathA.isRight),
        CuboidZIndexX(out.b, out.pathB.isRight))

ZTermDifference ==
    Sub(CuboidZIndexZ(out.a, out.pathA.isFront),
        CuboidZIndexZ(out.b, out.pathB.isFront))

YTermDifference ==
    Sub(CuboidZIndexY(grid, out.a, out.pathA.isTop),
        CuboidZIndexY(grid, out.b, out.pathB.isTop))

GroupDifference == Sub(out.pathA.zIndexes.group, out.pathB.zIndexes.group)

AbsValue(a) == IF Lt(a, Num(0)) THEN Neg(a) ELSE a

\* the z-indexes are ordered as the term difference d says
OrderedAs(d) ==
    /\ Lt(Num(0), d) => Lt(Num(0), GroupDifference)
    /\ Lt(d, Num(0)) => Lt(GroupDifference, Num(0))

RoundingMargin == 2

ArcSide1Angle(shapeArgs) == shapeArgs.start

\* side2 is drawn with ce and se, those of end = shapeArgs.end - 0.00001
ArcSide2Angle(shapeArgs) == Sub(shapeArgs.end, <<1, 100000>>)

\* angleCorr = Math.atan2(dy, -dx)
ArcAngleCorr(shapeArgs) ==
    atan2(Mul(shapeArgs.depth, shapeArgs.alpha.sin),
          Neg(Mul(shapeArgs.depth, shapeArgs.beta.sin)))

\* the z-index of a wall from the corrected angle of an edge:
\* toZeroPIRange(Math.abs(angle + angleCorr)) * incPrecision * 0.99
ArcWallZIndex(shapeArgs, angle) ==
    Mul(Mul(toZeroPIRange(MathAbs(Add(angle, ArcAngleCorr(shapeArgs)))),
            Num(incPrecision)),
        <<99, 100>>)

\* C27: the z-index of each end-cap wall is derived from the angle of the
\* edge at which the wall is drawn: zSide1, for the wall at the start
\* angle, from the corrected start angle, and zSide2, for the wall at the
\* end angle, from the corrected end angle
C27_SideZIndexFromOwnEdge ==
    ArcCalled =>
        /\ out.res.zSide1 = ArcWallZIndex(out.args, ArcSide1Angle(out.args))
        /\ out.res.zSide2 = ArcWallZIndex(out.args, ArcSide2Angle(out.args))

\* what the code does: each wall takes the z-index of the opposite edge
SideZIndexFromOppositeEdge ==
    ArcCalled =>
        /\ out.res.zSide1 = ArcWallZIndex(out.args, ArcSide2Angle(out.args))
        /\ out.res.zSide2 = ArcWallZIndex(out.args, ArcSide1Angle(out.args))

(***************************************************************************)
(* Price indicator: the afterRender handler of a series draws the last     *)
(* price and the last visible price with the crosshair of the y axis.      *)
(* Option objects are named by strings, elements by numbers (0: none).     *)
(***************************************************************************)

NoPriceOptions == [defined |-> FALSE, enabled |-> FALSE]

PriceOptions(enabled) == [defined |-> TRUE, enabled |-> enabled]

\* Axis.drawCrosshair with a point: the crosshair graphic is created when
\* the axis has none, and the label when the crosshair options ask for one
drawCrosshair(yAxis, fresh, withLabel) ==
    [yAxis EXCEPT
        !.cross = IF @ = 0 THEN fresh ELSE @,
        !.crossLabel = IF withLabel /\ @ = 0 THEN fresh + 1 ELSE @]

\* if (lastPrice && lastPrice.enabled) { ... }
LastPriceBranch(s) ==
    IF s.serie.options.lastPrice.defined /\ s.serie.options.lastPrice.enabled
    THEN LET borrowed == [s.yAxis EXCEPT !.crosshair = "lastPrice",
                                         !.optionsCrosshair = "lastPrice",
                                         !.cross = s.serie.lastPrice]
             drawn == drawCrosshair(borrowed, s.nextElement, s.withLabel)
         IN  [s EXCEPT !.yAxis = drawn,
                       !.serie.lastPrice = IF drawn.cross # 0 THEN drawn.cross
                                           ELSE @,
                       !.nextElement = @ + 2]
    ELSE s

\* if (lastVisiblePrice && lastVisiblePrice.enabled && pLength > 0) { ... }
LastVisiblePriceBranch(s) ==
    IF /\ s.serie.options.lastVisiblePrice.defined
       /\ s.serie.options.lastVisiblePrice.enabled
       /\ s.serie.pLength > 0
    THEN LET borrowed ==
                 [s.yAxis EXCEPT !.crosshair = "lastVisiblePrice",
                                 !.optionsCrosshair = "lastVisiblePrice",
                                 !.cross = s.serie.lastVisiblePrice]
             drawn == drawCrosshair(borrowed, s.nextElement, s.withLabel)
         IN  [s EXCEPT !.yAxis = drawn,
                       !.serie.lastVisiblePrice =
                           IF drawn.cross # 0 THEN drawn.cross ELSE @,
                       !.destroyed =
                           IF s.serie.crossLabel # 0
                           THEN @ \cup {s.serie.crossLabel} ELSE @,
                       !.serie.crossLabel = drawn.crossLabel,
                       !.nextElement = @ + 2]
    ELSE s

\* the afterRender handler: `// Restore crosshair:` puts back
\* yAxis.crosshair, yAxis.cross and yAxis.crossLabel
PriceAfterRender(s) ==
    IF (s.serie.options.lastVisiblePrice.defined
            \/ s.serie.options.lastPrice.defined)
       /\ ~s.serie.isNavigator
    THEN LET done == LastVisiblePriceBranch(LastPriceBranch(s))
         IN  [done EXCEPT !.yAxis.crosshair = s.yAxis.crosshair,
                          !.yAxis.cross = s.yAxis.cross,
                          !.yAxis.crossLabel = s.yAxis.crossLabel]
    ELSE s

(***************************************************************************)
(* SpecPrice: a series with price indicator options is rendered again and  *)
(* again.                                                                  *)
(***************************************************************************)

MaxRenders == 2

PriceOptionSets == {NoPriceOptions, PriceOptions(TRUE), PriceOptions(FALSE)}

InitPrice ==
    \E lastPrice \in PriceOptionSets, lastVisiblePrice \in PriceOptionSets,
       isNavigator \in BOOLEAN, pLength \in {0, 1}, withLabel \in BOOLEAN,
       crosshair \in {"undefined", "axis"}, cross \in {0, 1},
       crossLabel \in {0, 2} :
        /\ grid = [yAxis |-> [crosshair |-> crosshair,
                              optionsCrosshair |-> crosshair,
                              cross |-> cross, crossLabel |-> crossLabel],
                   serie |-> [options |-> [lastPrice |-> lastPrice,
                                           lastVisiblePrice |-> lastVisiblePrice],
                              isNavigator |-> isNavigator,
                              pLength |-> pLength,
                              lastPrice |-> 0, lastVisiblePrice |-> 0,
                              crossLabel |-> 0],
                   withLabel |-> withLabel,
                   destroyed |-> {},
                   nextElement |-> 3]
        /\ out = [kind |-> "render", before |-> grid.yAxis]
        /\ errors = 0
        /\ series = <<>>
        /\ ind = NoIndicator

Series_afterRender ==
    /\ errors < MaxRenders
    /\ grid' = PriceAfterRender(grid)
    /\ out' = [kind |-> "afterRender", before |-> grid.yAxis]
    /\ errors' = errors + 1
    /\ UNCHANGED <<series, ind>>

\* the chart's points change between two renders
Series_setData ==
    \E pLength \in {0, 1} :
        /\ pLength # grid.serie.pLength
        /\ grid' = [grid EXCEPT !.serie.pLength = pLength]
        /\ out' = [kind |-> "setData", before |-> grid.yAxis]
        /\ UNCHANGED <<series, errors, ind>>

NextPrice == Series_afterRender \/ Series_setData

SpecPrice == InitPrice /\ [][NextPrice]_vars

\* C28: the afterRender handler restores the y-axis crosshair state it
\* borrows: for every combination of lastPrice and lastVisiblePrice being
\* enabled, after the handler yAxis.crosshair, yAxis.options.crosshair,
\* yAxis.cross and yAxis.crossLabel are what they were before it ran
C28_CrosshairStateRestored ==
    out.kind = "afterRender" => grid.yAxis = out.before

\* what the code does: all but yAxis.options.crosshair are restored
CrosshairRestoredExceptOptions ==
    out.kind = "afterRender" =>
        /\ grid.yAxis.crosshair = out.before.crosshair
        /\ grid.yAxis.cross = out.before.cross
        /\ grid.yAxis.crossLabel = out.before.crossLabel
        /\ grid.yAxis.optionsCrosshair \in
               {out.before.optionsCrosshair, "lastPrice", "lastVisiblePrice"}

(***************************************************************************)
(* The event bindings of an indicator: sma.init binds recalculateValues to *)
(* the updatedData event of the linked series (or of its x axis) and, when *)
(* calculateOn is not 'init', to the first firing of that chart event;     *)
(* sma.destroy unbinds.  `series` is the log of the events fired so far,   *)
(* each with the number of recalculations it caused.                       *)
(***************************************************************************)

\* sma.init from the bindings on: the data handler is pushed to
\* dataEventsToUnbind; with calculateOn 'init' the values are calculated at
\* once, otherwise a handler is bound to the chart that runs once
BindIndicator(bindToSeries, calculateOn) ==
    [bindToSeries |-> bindToSeries, calculateOn |-> calculateOn,
     dataTarget |-> IF bindToSeries THEN "linkedParent" ELSE "xAxis",
     dataHandlerBound |-> TRUE,
     dataEventsToUnbind |-> 1,
     chartHandlerBound |-> calculateOn # "init",
     recalculated |-> IF calculateOn = "init" THEN 1 ELSE 0,
     destroyed |-> FALSE]

\* fireEvent(target, 'updatedData'): the bound handler recalculates
FireUpdatedData(b, target) ==
    IF b.dataHandlerBound /\ b.dataTarget = target
    THEN [b EXCEPT !.recalculated = @ + 1]
    ELSE b

\* fireEvent(chart, calculateOn): recalculateValues(); unbinder()
FireChartEvent(b) ==
    IF b.chartHandlerBound
    THEN [b EXCEPT !.recalculated = @ + 1, !.chartHandlerBound = FALSE]
    ELSE b

\* sma.destroy: every unbinder of dataEventsToUnbind is called, then
\* Series.prototype.destroy removes the handlers bound to the series itself
destroyIndicator(b) ==
    [b EXCEPT !.dataHandlerBound = FALSE, !.destroyed = TRUE]

(***************************************************************************)
(* SpecBinding: events fire on the linked series, its x axis and the       *)
(* chart; the indicator is destroyed at some point.                        *)
(***************************************************************************)

MaxEvents == 4

InitBinding ==
    \E bindToSeries \in BOOLEAN, calculateOn \in {"init", "render"} :
        /\ ind = BindIndicator(bindToSeries, calculateOn)
        /\ series = <<>>
        /\ out = [kind |-> "init"]
        /\ errors = 0
        /\ grid = NoGrid

\* the event recorded with the number of recalculations it caused
Fired(event, after) ==
    Append(series, [event |-> event, destroyed |-> ind.destroyed,
                    runs |-> after.recalculated - ind.recalculated])

Target_updatedData ==
    \E target \in {"linkedParent", "xAxis"} :
        /\ Len(series) < MaxEvents
        /\ ind' = FireUpdatedData(ind, target)
        /\ series' = Fired(target, FireUpdatedData(ind, target))
        /\ out' = [kind |-> "updatedData"]
        /\ UNCHANGED <<errors, grid>>

\* the chart fires the event named by calculateOn
Chart_calculateOn ==
    /\ Len(series) < MaxEvents
    /\ ind.calculateOn # "init"
    /\ ind' = FireChartEvent(ind)
    /\ series' = Fired("chart", FireChartEvent(ind))
    /\ out' = [kind |-> "chart"]
    /\ UNCHANGED <<errors, grid>>

Indicator_destroy ==
    /\ ~ind.destroyed
    /\ ind' = destroyIndicator(ind)
    /\ out' = [kind |-> "destroy"]
    /\ UNCHANGED <<series, errors, grid>>

NextBinding == Target_updatedData \/ Chart_calculateOn \/ Indicator_destroy

SpecBinding == InitBinding /\ [][NextBinding]_vars

\* C29: after an indicator series is destroyed its recalculateValues never
\* runs again: neither a later updatedData event of the linked parent or
\* its x axis nor a later firing of the chart event named by calculateOn
\* triggers a recalculation, including when destroy happens before that
\* chart event has fired for the first time
C29_NoRecalculationAfterDestroy ==
    \A i \in 1..Len(series) : series[i].destroyed => series[i].runs = 0

\* what the code does: after destroy no updatedData event recalculates, and
\* the chart event recalculates once if it had not fired before destroy
OnlyFirstChartEventAfterDestroy ==
    \A i \in 1..Len(series) :
        series[i].destroyed =>
            IF /\ series[i].event = "chart"
               /\ \A j \in 1..(i - 1) : series[j].event # "chart"
            THEN series[i].runs = 1
            ELSE series[i].runs = 0

(***************************************************************************)
(* The tick length of a grid axis over its lifecycle (SpecGrid)            *)
(***************************************************************************)

\* 2 * |default left-axis label x offset| plus the largest label height
\* (horizontal axis) or width (vertical axis)
ExtendedTickLength(axis) ==
    Add(Num(2 * Abs(DefaultLeftAxisLabelsX)),
        IF AxisHoriz(axis) THEN axis.maxLabelDimensions.height
        ELSE axis.maxLabelDimensions.width)

\* C30: in every reachable lifecycle state of a grid-enabled axis,
\* including tick-size queries made before the first render, the
\* afterTickSize handler yields a numeric tick length equal to
\* 2 * |default left-axis label x offset| plus the maximum label height
\* (horizontal axis) or width (vertical axis); it never reads
\* maxLabelDimensions before afterRender has set it
C30_TickLengthInEveryState ==
    grid.enabled =>
        /\ ~grid.threw
        /\ grid.maxLabelDimensions.has =>
            /\ IsFinite(AxisTickSize(grid).v[1])
            /\ AxisTickSize(grid).v[1] = ExtendedTickLength(grid)

\* what the code does: the length is that number once afterRender has
\* measured the labels, and a query fails exactly before that
TickLengthOnceRendered ==
    grid.enabled =>
        /\ AfterTickSizeThrows(grid) <=> ~grid.maxLabelDimensions.has
        /\ grid.maxLabelDimensions.has =>
            /\ IsFinite(AxisTickSize(grid).v[1])
            /\ AxisTickSize(grid).v[1] = ExtendedTickLength(grid)

====
